---- MODULE Spec2Model ----
(***************************************************************************)
(* Trip planner: the confirmation state machine of server.js               *)
(* (src/unnamed/part_000) and the itinerary normalisation / recomputation  *)
(* of tripPlanner.js (src/unnamed/part_001).                               *)
(*                                                                         *)
(* Conventions.  A JavaScript value that may be undefined/null is modelled *)
(* as a sequence: Undefined (<<>>) or Just(v) (<<v>>).  Money is counted   *)
(* in cents, so Number(x.toFixed(2)) is rounding to a whole cent.  A       *)
(* timestamp string is a record [form, y, m, d, h, off]; form "iso" is     *)
(* "YYYY-MM-DDTHH:00:00+off", form "text" is any other text and form       *)
(* "undefined" is a missing value.                                         *)
(***************************************************************************)
EXTENDS Integers, Sequences, FiniteSets, TLC

VARIABLES itineraryStore, pending, now, response

\* one planning run followed stage by stage: who called it (sink), where it
\* is suspended (pc), and what it has emitted, written and been answered so far
VARIABLES sink, pc, runPreferences, replies, invoked, toolCalls, emitted,
          written, responseClosed, ended, sinkBroken, outcome

runVars == <<sink, pc, runPreferences, replies, invoked, toolCalls, emitted,
             written, responseClosed, ended, sinkBroken, outcome>>

\* one call of a function of tripPlanner.js taken by itself: the function and
\* its arguments (call) and what it returned or threw (callResult)
VARIABLES call, callResult

fnVars == <<call, callResult>>

vars == <<itineraryStore, pending, now, response, runVars, fnVars>>

----------------------------------------------------------------------------
(* Bounds of the model *)

\* number of planning sessions that are ever stored
MaxSessions == 1
\* number of readings of the wall clock (new Date()) in a run
MaxClock == 6
\* number of confirm requests suspended in createFinalReview at one time
MaxPending == 2
\* number of tool calls an agent run reports while a stage is awaited
MaxToolCalls == 1
\* number of sessions stored where sessions are set against each other
MaxSideBySide == 2

----------------------------------------------------------------------------
(* JavaScript values *)

Undefined == <<>>
Just(v) == <<v>>
IsDefined(x) == x # Undefined
Get(x) == x[1]
\* `a ?? b`
Coalesce(a, b) == IF IsDefined(a) THEN a ELSE b
\* a string-valued field that is undefined
NoString == "undefined"
\* option.field, undefined when the object has no such property
Field(option, name) == IF name \in DOMAIN option THEN option[name] ELSE Undefined

Max(a, b) == IF a >= b THEN a ELSE b
\* Number((a / b).toFixed(2)) on cent amounts, b > 0: the nearest cent
RoundDiv(a, b) == (2 * a + b) \div (2 * b)
\* `Number(x || 1)` for an optional number
OrOne(x) == IF IsDefined(x) /\ Get(x) # 0 THEN Get(x) ELSE 1

TRIP_COMPONENTS == <<"flight", "hotel", "carRental">>

----------------------------------------------------------------------------
(* Dates *)

NoTime == [form |-> "undefined", y |-> 0, m |-> 0, d |-> 0, h |-> 0, off |-> 0]
TextTime == [form |-> "text", y |-> 0, m |-> 0, d |-> 0, h |-> 0, off |-> 0]
Iso(y, m, d, h, off) == [form |-> "iso", y |-> y, m |-> m, d |-> d, h |-> h, off |-> off]

IsLeap(y) == (y % 4 = 0 /\ y % 100 # 0) \/ y % 400 = 0
DaysBeforeMonth(y, m) ==
    LET cum == <<0, 31, 59, 90, 120, 151, 181, 212, 243, 273, 304, 334>>
    IN cum[m] + (IF m > 2 /\ IsLeap(y) THEN 1 ELSE 0)
LeapsBefore(y) == ((y - 1) \div 4) - ((y - 1) \div 100) + ((y - 1) \div 400)
\* day number of a calendar date as Date.UTC counts it (a day beyond the
\* month's end rolls over into the next month, as V8 parses it)
DayNumber(date) ==
    365 * date[1] + LeapsBefore(date[1]) + DaysBeforeMonth(date[1], date[2]) + date[3]
\* whether new Date("YYYY-MM-DDT00:00:00Z") is a valid date
ValidDate(date) == date[2] \in 1..12 /\ date[3] \in 1..31

extractLocalDatePart(dateTimeString) ==
    IF dateTimeString.form = "iso"
    THEN Just(<<dateTimeString.y, dateTimeString.m, dateTimeString.d>>)
    ELSE Undefined

dayDiffFromLocalDates(startDatePart, endDatePart) ==
    IF ~IsDefined(startDatePart) \/ ~IsDefined(endDatePart) THEN Undefined
    ELSE IF ~ValidDate(Get(startDatePart)) \/ ~ValidDate(Get(endDatePart))
            \/ DayNumber(Get(endDatePart)) < DayNumber(Get(startDatePart))
         THEN Undefined
         ELSE Just(DayNumber(Get(endDatePart)) - DayNumber(Get(startDatePart)))

\* the parsed instant, in hours, or Undefined
parseDateSafe(value) ==
    IF value.form = "iso" /\ ValidDate(<<value.y, value.m, value.d>>) /\ value.h \in 0..23
    THEN Just(24 * DayNumber(<<value.y, value.m, value.d>>) + value.h - value.off)
    ELSE Undefined

----------------------------------------------------------------------------
(* Stay calculator *)

\* faulty variant: the end day is counted as a day at the destination (C25
\* rejects it)
computeBaselineStayCountingEndDay(preferences) ==
    LET start == parseDateSafe(preferences.startDate)
        end == parseDateSafe(preferences.endDate)
    IN IF ~IsDefined(start) \/ ~IsDefined(end) \/ Get(end) <= Get(start)
       THEN [arrivalLocal |-> preferences.startDate,
             departureLocal |-> preferences.endDate,
             daysAtDestination |-> Max(1, OrOne(Just(preferences.tripLengthDays))),
             nightsAtDestination |-> Max(1, OrOne(Just(preferences.tripLengthDays)) - 1)]
       ELSE LET diffDays == (Get(end) - Get(start)) \div 24
            IN [arrivalLocal |-> preferences.startDate,
                departureLocal |-> preferences.endDate,
                daysAtDestination |-> Max(1, diffDays + 1),
                nightsAtDestination |-> Max(0, diffDays)]

computeBaselineStay(preferences) ==
    LET start == parseDateSafe(preferences.startDate)
        end == parseDateSafe(preferences.endDate)
    IN IF ~IsDefined(start) \/ ~IsDefined(end) \/ Get(end) <= Get(start)
       THEN [arrivalLocal |-> preferences.startDate,
             departureLocal |-> preferences.endDate,
             daysAtDestination |-> Max(1, OrOne(Just(preferences.tripLengthDays))),
             nightsAtDestination |-> Max(1, OrOne(Just(preferences.tripLengthDays)) - 1)]
       ELSE LET diffDays == (Get(end) - Get(start)) \div 24
            IN [arrivalLocal |-> preferences.startDate,
                departureLocal |-> preferences.endDate,
                daysAtDestination |-> Max(1, diffDays),
                nightsAtDestination |-> Max(0, diffDays - 1)]

\* Array.prototype.find on option ids: the first option with that id
FindOption(options, id) ==
    LET hits == {i \in 1..Len(options) : options[i].id = id}
    IN IF hits = {} THEN Undefined
       ELSE Just(options[CHOOSE i \in hits : \A j \in hits : i <= j])

\* faulty variant: the nights are counted between the two instants, time of
\* day and offset included (C24 rejects it)
computeDestinationStayByClock(itinerary, researchJson, preferences) ==
    LET baseline == computeBaselineStay(preferences)
        preferredFlightId == itinerary.components.flight.recommendedOptionId
        byId == FindOption(researchJson.flightOptions, preferredFlightId)
        flightOption ==
            IF IsDefined(byId) THEN byId
            ELSE IF Len(researchJson.flightOptions) > 0
                 THEN Just(researchJson.flightOptions[1]) ELSE Undefined
        arrival == IF IsDefined(flightOption) THEN Get(flightOption).outboundArrivalLocal ELSE NoTime
        departure == IF IsDefined(flightOption) THEN Get(flightOption).returnDepartureLocal ELSE NoTime
        flightNights ==
            IF IsDefined(parseDateSafe(arrival)) /\ IsDefined(parseDateSafe(departure))
               /\ Get(parseDateSafe(departure)) >= Get(parseDateSafe(arrival))
            THEN Just((Get(parseDateSafe(departure)) - Get(parseDateSafe(arrival))) \div 24)
            ELSE Undefined
    IN IF IsDefined(flightNights) /\ Get(flightNights) >= 0
       THEN [arrivalLocal |-> arrival,
             departureLocal |-> departure,
             daysAtDestination |-> Max(0, Get(flightNights)) + 1,
             nightsAtDestination |-> Max(0, Get(flightNights)),
             calculationNote |-> "flight"]
       ELSE [arrivalLocal |-> baseline.arrivalLocal,
             departureLocal |-> baseline.departureLocal,
             daysAtDestination |-> baseline.daysAtDestination,
             nightsAtDestination |-> baseline.nightsAtDestination,
             calculationNote |-> "window"]

computeDestinationStay(itinerary, researchJson, preferences) ==
    LET baseline == computeBaselineStay(preferences)
        preferredFlightId == itinerary.components.flight.recommendedOptionId
        byId == FindOption(researchJson.flightOptions, preferredFlightId)
        flightOption ==
            IF IsDefined(byId) THEN byId
            ELSE IF Len(researchJson.flightOptions) > 0
                 THEN Just(researchJson.flightOptions[1]) ELSE Undefined
        arrival == IF IsDefined(flightOption) THEN Get(flightOption).outboundArrivalLocal ELSE NoTime
        departure == IF IsDefined(flightOption) THEN Get(flightOption).returnDepartureLocal ELSE NoTime
        flightNights == dayDiffFromLocalDates(extractLocalDatePart(arrival),
                                              extractLocalDatePart(departure))
    IN IF IsDefined(flightNights) /\ Get(flightNights) >= 0
       THEN [arrivalLocal |-> arrival,
             departureLocal |-> departure,
             daysAtDestination |-> Max(0, Get(flightNights)) + 1,
             nightsAtDestination |-> Max(0, Get(flightNights)),
             calculationNote |-> "flight"]
       ELSE [arrivalLocal |-> baseline.arrivalLocal,
             departureLocal |-> baseline.departureLocal,
             daysAtDestination |-> baseline.daysAtDestination,
             nightsAtDestination |-> baseline.nightsAtDestination,
             calculationNote |-> "window"]

----------------------------------------------------------------------------
(* Component normaliser *)

\* a component the stage output does not contain
NoComponent == [options |-> <<>>, recommendedOptionId |-> NoString,
                confirmationQuestion |-> NoString]

normalizeComponent(component, fallbackOptions, fallbackQuestion) ==
    LET options == IF Len(component.options) > 0 THEN component.options ELSE fallbackOptions
        firstOptionId == IF Len(options) > 0 THEN options[1].id ELSE "option_1"
    IN [options |-> options,
        recommendedOptionId |->
            IF component.recommendedOptionId # NoString
            THEN component.recommendedOptionId ELSE firstOptionId,
        confirmationQuestion |->
            IF component.confirmationQuestion # NoString
            THEN component.confirmationQuestion ELSE fallbackQuestion]

deriveNightlyRate(option) ==
    IF IsDefined(option.nightlyUsd) THEN option.nightlyUsd
    ELSE IF IsDefined(option.costUsd) /\ IsDefined(option.nights) /\ Get(option.nights) > 0
         THEN Just(RoundDiv(Get(option.costUsd), Get(option.nights)))
         ELSE Undefined

deriveDailyCarRate(option) ==
    IF IsDefined(option.dailyRateUsd) THEN option.dailyRateUsd
    ELSE IF IsDefined(option.costUsd) /\ IsDefined(option.rentalDays)
            /\ Get(option.rentalDays) > 0
         THEN Just(RoundDiv(Get(option.costUsd), Get(option.rentalDays)))
         ELSE Undefined

normalizeHotelOption(option, nights) ==
    LET nightlyUsd == deriveNightlyRate(option)
        costUsd == IF IsDefined(nightlyUsd) THEN Just(Get(nightlyUsd) * nights)
                   ELSE option.costUsd
    IN [option EXCEPT !.nightlyUsd = Coalesce(nightlyUsd, option.nightlyUsd),
                      !.nights = Just(nights),
                      !.costUsd = costUsd,
                      !.stayNights = Just(nights)]

normalizeHotelComponent(component, fallbackOptions, computedStay) ==
    LET base == normalizeComponent(component, fallbackOptions,
                                   "Please confirm this hotel option.")
        nights == Max(1, OrOne(Just(computedStay.nightsAtDestination)))
    IN [base EXCEPT !.options =
            [i \in 1..Len(base.options) |-> normalizeHotelOption(base.options[i], nights)]]

normalizeCarOption(option, rentalDays) ==
    LET dailyRateUsd == deriveDailyCarRate(option)
        costUsd == IF IsDefined(dailyRateUsd) THEN Just(Get(dailyRateUsd) * rentalDays)
                   ELSE option.costUsd
    IN [option EXCEPT !.dailyRateUsd = Coalesce(dailyRateUsd, option.dailyRateUsd),
                      !.rentalDays = Just(rentalDays),
                      !.costUsd = costUsd]

normalizeCarComponent(component, fallbackOptions, computedStay) ==
    LET base == normalizeComponent(component, fallbackOptions,
                                   "Please confirm this car rental option.")
        rentalDays == Max(1, OrOne(Just(computedStay.daysAtDestination)))
    IN [base EXCEPT !.options =
            [i \in 1..Len(base.options) |-> normalizeCarOption(base.options[i], rentalDays)]]

----------------------------------------------------------------------------
(* Cost aggregator *)

\* faulty variant: the first option is taken whatever the recommended id
\* (C29 rejects it)
optionCostByIdOfFirstOption(component) ==
    IF Len(component.options) = 0 THEN 0
    ELSE LET option == component.options[1]
         IN IF IsDefined(Field(option, "costUsd")) THEN Get(option.costUsd)
            ELSE IF IsDefined(Field(option, "nightlyUsd")) /\ IsDefined(Field(option, "nights"))
                 THEN Get(option.nightlyUsd) * Get(option.nights)
                 ELSE 0

optionCostById(component) ==
    IF Len(component.options) = 0 THEN 0
    ELSE LET recommendedId ==
                 IF component.recommendedOptionId # NoString
                 THEN component.recommendedOptionId ELSE component.options[1].id
             option == Get(Coalesce(FindOption(component.options, recommendedId),
                                    Just(component.options[1])))
         IN IF IsDefined(Field(option, "costUsd")) THEN Get(option.costUsd)
            ELSE IF IsDefined(Field(option, "nightlyUsd")) /\ IsDefined(Field(option, "nights"))
                 THEN Get(option.nightlyUsd) * Get(option.nights)
                 ELSE 0

RECURSIVE SumActivities(_)
SumActivities(activities) ==
    IF Len(activities) = 0 THEN 0
    ELSE (IF IsDefined(activities[1].estimatedCostUsd)
          THEN Get(activities[1].estimatedCostUsd) ELSE 0)
         + SumActivities(Tail(activities))

estimateTotals(itinerary) ==
    LET flightUsd == optionCostById(itinerary.components.flight)
        hotelUsd == optionCostById(itinerary.components.hotel)
        carRentalUsd == optionCostById(itinerary.components.carRental)
        activitiesUsd == SumActivities(itinerary.activities)
    IN [flightUsd |-> flightUsd,
        hotelUsd |-> hotelUsd,
        carRentalUsd |-> carRentalUsd,
        activitiesUsd |-> activitiesUsd,
        totalUsd |-> flightUsd + hotelUsd + carRentalUsd + activitiesUsd]

----------------------------------------------------------------------------
(* Itinerary normalisation and recomputation *)

\* research activityIdeas mapped to itinerary activities
ActivitiesFromIdeas(ideas) ==
    [i \in 1..Len(ideas) |->
        [estimatedCostUsd |-> Just(IF IsDefined(ideas[i].estimatedCostUsd)
                                   THEN Get(ideas[i].estimatedCostUsd) ELSE 0)]]

normalizeItinerary(rawItinerary, researchJson, preferences) ==
    LET computedStay == computeDestinationStay(rawItinerary, researchJson, preferences)
        components ==
            [flight |-> normalizeComponent(rawItinerary.components.flight,
                                           researchJson.flightOptions,
                                           "Please confirm this flight option."),
             hotel |-> normalizeHotelComponent(rawItinerary.components.hotel,
                                               researchJson.hotelOptions, computedStay),
             carRental |-> normalizeCarComponent(rawItinerary.components.carRental,
                                                 researchJson.carRentalOptions, computedStay)]
        activities == IF IsDefined(rawItinerary.activities) THEN Get(rawItinerary.activities)
                      ELSE ActivitiesFromIdeas(researchJson.activityIdeas)
        withoutSummary ==
            [stayAtDestination |-> Coalesce(rawItinerary.stayAtDestination, Just(computedStay)),
             components |-> components,
             activities |-> activities]
    IN [stayAtDestination |-> withoutSummary.stayAtDestination,
        components |-> components,
        activities |-> activities,
        estimatedCostSummary |->
            Get(Coalesce(rawItinerary.estimatedCostSummary,
                         Just(estimateTotals(withoutSummary))))]

recomputeDependentComponentsFromFlight(itinerary, confirmedFlightOptionId) ==
    LET flightComponent == itinerary.components.flight
        selectedFlight == FindOption(flightComponent.options, confirmedFlightOptionId)
    IN IF ~IsDefined(selectedFlight) THEN itinerary
       ELSE
         LET flight == [flightComponent EXCEPT !.recommendedOptionId = confirmedFlightOptionId]
             fallbackStay ==
                 Get(Coalesce(itinerary.stayAtDestination,
                              Just([arrivalLocal |-> Get(selectedFlight).outboundArrivalLocal,
                                    departureLocal |-> Get(selectedFlight).returnDepartureLocal,
                                    daysAtDestination |-> 1,
                                    nightsAtDestination |-> 0,
                                    calculationNote |-> "fallback"])))
             nights == dayDiffFromLocalDates(
                           extractLocalDatePart(Get(selectedFlight).outboundArrivalLocal),
                           extractLocalDatePart(Get(selectedFlight).returnDepartureLocal))
             recomputedStay ==
                 IF IsDefined(nights)
                 THEN [arrivalLocal |-> Get(selectedFlight).outboundArrivalLocal,
                       departureLocal |-> Get(selectedFlight).returnDepartureLocal,
                       daysAtDestination |-> Max(1, Get(nights) + 1),
                       nightsAtDestination |-> Max(0, Get(nights)),
                       calculationNote |-> "confirmed"]
                 ELSE fallbackStay
             next ==
                 [stayAtDestination |-> Just(recomputedStay),
                  components |->
                      [flight |-> flight,
                       hotel |-> normalizeHotelComponent(itinerary.components.hotel,
                                     itinerary.components.hotel.options, recomputedStay),
                       carRental |-> normalizeCarComponent(itinerary.components.carRental,
                                         itinerary.components.carRental.options,
                                         recomputedStay)],
                  activities |-> itinerary.activities]
         IN [stayAtDestination |-> next.stayAtDestination,
             components |-> next.components,
             activities |-> next.activities,
             estimatedCostSummary |-> estimateTotals(next)]

----------------------------------------------------------------------------
(* Generation stages: the engine's reply to one stage is                   *)
(*   [kind |-> "error"]    the run failed (runner error),                  *)
(*   [kind |-> "empty"]    empty or whitespace-only text,                  *)
(*   [kind |-> "invalid"]  text that is not JSON,                          *)
(*   [kind |-> "json", value |-> v]  text that parses to the JSON value v. *)

StageError == [kind |-> "error", value |-> Undefined]
StageEmpty == [kind |-> "empty", value |-> Undefined]
StageInvalid == [kind |-> "invalid", value |-> Undefined]
StageJson(v) == [kind |-> "json", value |-> Just(v)]
\* the JSON text `null`
StageNull == [kind |-> "json", value |-> Undefined]

\* faulty variant: empty output is taken for a value (C15 rejects it)
parseAgentJsonAcceptingEmpty(result, agentName) ==
    CASE result.kind = "error" -> [ok |-> FALSE, error |-> <<agentName, "run failed">>,
                                   value |-> Undefined]
      [] result.kind = "invalid" -> [ok |-> FALSE,
                                     error |-> <<agentName, "did not return valid JSON">>,
                                     value |-> Undefined]
      [] OTHER -> [ok |-> TRUE, error |-> <<>>, value |-> result.value]

\* runAgentWithTelemetry followed by parseAgentJson(extractAgentText(..)):
\* the parsed value, or the failure that is thrown
parseAgentJson(result, agentName) ==
    CASE result.kind = "error" -> [ok |-> FALSE, error |-> <<agentName, "run failed">>,
                                   value |-> Undefined]
      [] result.kind = "empty" -> [ok |-> FALSE, error |-> <<agentName, "returned empty output">>,
                                   value |-> Undefined]
      [] result.kind = "invalid" -> [ok |-> FALSE,
                                     error |-> <<agentName, "did not return valid JSON">>,
                                     value |-> Undefined]
      [] OTHER -> [ok |-> TRUE, error |-> <<>>, value |-> result.value]

validateTripRequest(input) ==
    LET start == parseDateSafe(input.startDate)
        end == parseDateSafe(input.endDate)
    IN /\ input.tripLengthDays > 0
       /\ IsDefined(start) /\ IsDefined(end) /\ Get(end) > Get(start)

\* the failure buildItineraryDraft throws: that of the first stage, in the
\* order research, safety, composition, whose reply fails; ok when none does
DraftFailure(researchResult, safetyResult, itineraryResult) ==
    LET researchJson == parseAgentJson(researchResult, "researchAgent")
        safetyJson == parseAgentJson(safetyResult, "safetyPackingAgent")
        itineraryDraft == parseAgentJson(itineraryResult, "itineraryAgent")
    IN IF ~researchJson.ok THEN researchJson
       ELSE IF ~safetyJson.ok THEN safetyJson
       ELSE IF ~itineraryDraft.ok THEN itineraryDraft
       ELSE [ok |-> TRUE, error |-> <<>>, value |-> Undefined]

\* the draft buildItineraryDraft returns when no stage fails
buildItineraryDraft(preferences, researchResult, safetyResult, itineraryResult) ==
    normalizeItinerary(Get(itineraryResult.value), Get(researchResult.value), preferences)

----------------------------------------------------------------------------
(* Inputs of the model *)

Prefs(startDate, endDate, tripLengthDays) ==
    [startDate |-> startDate, endDate |-> endDate, tripLengthDays |-> tripLengthDays]

\* request bodies of POST /api/plan: a valid one (2026-03-21 to 2026-03-29,
\* 8 days) and one whose end date is not after its start date
PlanBodies ==
    { Prefs(Iso(2026, 3, 21, 0, 0), Iso(2026, 3, 29, 0, 0), 8),
      Prefs(Iso(2026, 3, 29, 0, 0), Iso(2026, 3, 21, 0, 0), 8) }

FlightOption(id, costUsd, arrival, departure) ==
    [id |-> id, costUsd |-> costUsd, outboundArrivalLocal |-> arrival,
     returnDepartureLocal |-> departure]
HotelOption(id, nightlyUsd, nights, costUsd) ==
    [id |-> id, nightlyUsd |-> nightlyUsd, nights |-> nights, costUsd |-> costUsd,
     stayNights |-> Undefined]
CarOption(id, dailyRateUsd, rentalDays, costUsd) ==
    [id |-> id, dailyRateUsd |-> dailyRateUsd, rentalDays |-> rentalDays,
     costUsd |-> costUsd]

\* f1 arrives 2026-03-22 and leaves 2026-03-29; f2 has no usable return date
ResearchFlights ==
    << FlightOption("f1", Just(120000), Iso(2026, 3, 22, 8, 1), Iso(2026, 3, 29, 10, 1)),
       FlightOption("f2", Just(90000), Iso(2026, 3, 21, 23, 1), TextTime) >>
ResearchHotels ==
    << HotelOption("h1", Just(25000), Just(7), Just(175000)),
       HotelOption("h2", Undefined, Just(3), Just(100000)) >>
ResearchCars ==
    << CarOption("c1", Just(5000), Just(8), Just(40000)),
       CarOption("c2", Undefined, Undefined, Just(30000)) >>

ResearchDoc(flights, hotels, cars, ideas) ==
    [flightOptions |-> flights, hotelOptions |-> hotels, carRentalOptions |-> cars,
     activityIdeas |-> ideas]

ResearchDocs ==
    { ResearchDoc(ResearchFlights, ResearchHotels, ResearchCars,
                  <<[estimatedCostUsd |-> Just(4000)]>>),
      ResearchDoc(<<>>, <<>>, <<>>, <<>>) }

Stay(days, nights) ==
    [arrivalLocal |-> NoTime, departureLocal |-> NoTime, daysAtDestination |-> days,
     nightsAtDestination |-> nights, calculationNote |-> "stage"]

Component(options, recommendedOptionId, confirmationQuestion) ==
    [options |-> options, recommendedOptionId |-> recommendedOptionId,
     confirmationQuestion |-> confirmationQuestion]

ItineraryDoc(stay, flight, hotel, carRental, activities, summary) ==
    [stayAtDestination |-> stay,
     components |-> [flight |-> flight, hotel |-> hotel, carRental |-> carRental],
     activities |-> activities, estimatedCostSummary |-> summary]

\* composition outputs: an empty object, and the schema of the agent's
\* instructions filled in (stay counts 0, a cost summary whose total leaves
\* the activities out)
ItineraryDocs ==
    { ItineraryDoc(Undefined, NoComponent, NoComponent, NoComponent, Undefined, Undefined),
      ItineraryDoc(Just(Stay(0, 0)),
                   Component(ResearchFlights, "f2", "Confirm the flight?"),
                   Component(<<>>, "h9", NoString),
                   NoComponent,
                   Just(<<[estimatedCostUsd |-> Just(2500)]>>),
                   Just([flightUsd |-> 90000, hotelUsd |-> 0, carRentalUsd |-> 0,
                         activitiesUsd |-> 2500, totalUsd |-> 90000])) }

StageFailures == {StageError, StageEmpty, StageInvalid}
\* a stage that is not invoked gives no reply
StageNotRun == [kind |-> "not run", value |-> Undefined]
ResearchResults == StageFailures \cup {StageJson(d) : d \in ResearchDocs}
SafetyResults == StageFailures \cup {StageJson([safetyConcerns |-> <<>>, packingList |-> <<>>])}
ItineraryResults == StageFailures \cup {StageJson(d) : d \in ItineraryDocs}

\* the replies of the three stages in one run for a request body: a stage
\* is invoked only when the body is valid and every earlier stage succeeded
StageRuns(body) ==
    IF ~validateTripRequest(body) THEN {<<StageNotRun, StageNotRun, StageNotRun>>}
    ELSE {<<r, StageNotRun, StageNotRun>> : r \in StageFailures}
         \cup {<<r, s, StageNotRun>> : r \in ResearchResults \ StageFailures, s \in StageFailures}
         \cup {<<r, s, c>> : r \in ResearchResults \ StageFailures,
                             s \in SafetyResults \ StageFailures, c \in ItineraryResults}

----------------------------------------------------------------------------
(* Session table and responses *)

Null == "null"
Range(seq) == {seq[i] : i \in 1..Len(seq)}
Remove(seq, i) == [j \in 1..(Len(seq) - 1) |-> IF j < i THEN seq[j] ELSE seq[j + 1]]

NoConfirmations == [flight |-> Undefined, hotel |-> Undefined, carRental |-> Undefined]

\* the first component, in the order of TRIP_COMPONENTS, without a
\* confirmation record; Null when there is none
nextComponentToConfirm(confirmations) ==
    LET open == {i \in 1..Len(TRIP_COMPONENTS) : ~IsDefined(confirmations[TRIP_COMPONENTS[i]])}
    IN IF open = {} THEN Null
       ELSE TRIP_COMPONENTS[CHOOSE i \in open : \A j \in open : i <= j]

\* faulty variant: the record starts with the recommended flight confirmed
\* (C22 rejects it)
NewRecordConfirmingRecommended(preferences, itineraryDraft, createdAt) ==
    [preferences |-> preferences,
     itinerary |-> itineraryDraft,
     confirmations |->
        [NoConfirmations EXCEPT
            !.flight = Just([optionId |-> itineraryDraft.components.flight.recommendedOptionId,
                             confirmedAt |-> createdAt])],
     finalReview |-> Undefined,
     finalConfirmed |-> FALSE,
     finalConfirmationAt |-> Undefined,
     createdAt |-> createdAt]

\* the record storeItineraryRecord puts into the table
NewRecord(preferences, itineraryDraft, createdAt) ==
    [preferences |-> preferences,
     itinerary |-> itineraryDraft,
     confirmations |-> NoConfirmations,
     finalReview |-> Undefined,
     finalConfirmed |-> FALSE,
     finalConfirmationAt |-> Undefined,
     createdAt |-> createdAt]

\* the shape of every response; a field a response does not carry is
\* Undefined / NoString
Reply(op, status, error) ==
    [op |-> op, status |-> status, error |-> error, detail |-> NoString,
     itineraryId |-> 0, confirmations |-> Undefined,
     nextComponentToConfirm |-> NoString, finalReview |-> Undefined,
     approved |-> Undefined]

NoResponse == Reply("none", 0, NoString)
\* the request is suspended in `await createFinalReview(..)`: nothing sent yet
Suspended == Reply("confirm", 0, "suspended")
\* the awaited final review threw inside the async handler: the rejection is
\* not caught by the handler and no result is sent
Rejected(detail) == [Reply("confirm", 0, "rejected") EXCEPT !.detail = detail]

PlanReply(itineraryId, record) ==
    [Reply("plan", 200, NoString) EXCEPT
        !.itineraryId = itineraryId,
        !.nextComponentToConfirm = nextComponentToConfirm(record.confirmations)]

ConfirmReply(itineraryId, record, remainingComponent) ==
    [Reply("confirm", 200, NoString) EXCEPT
        !.itineraryId = itineraryId,
        !.confirmations = Just(record.confirmations),
        !.nextComponentToConfirm = remainingComponent,
        !.finalReview = record.finalReview]

FinalReply(itineraryId, approved) ==
    [Reply("final", 200, NoString) EXCEPT
        !.itineraryId = itineraryId,
        !.approved = Just(approved)]

----------------------------------------------------------------------------
(* POST /api/plan *)

storeItineraryRecord(preferences, itineraryDraft) ==
    Append(itineraryStore, NewRecord(preferences, itineraryDraft, now))

\* POST /api/plan taken as one step, in a table that holds up to `limit`
\* sessions
PlanWithin(limit, body, researchResult, safetyResult, itineraryResult) ==
    IF ~validateTripRequest(body)
    THEN /\ response' = Reply("plan", 400, "InvalidInput")
         /\ UNCHANGED <<itineraryStore, pending, now>>
    ELSE LET failure == DraftFailure(researchResult, safetyResult, itineraryResult)
         IN IF ~failure.ok
            THEN /\ response' = [Reply("plan", 500, "StageOutputInvalid") EXCEPT
                                    !.detail = failure.error[1]]
                 /\ UNCHANGED <<itineraryStore, pending, now>>
            ELSE /\ Len(itineraryStore) < limit
                 /\ now < MaxClock
                 /\ itineraryStore' =
                        storeItineraryRecord(body,
                            buildItineraryDraft(body, researchResult, safetyResult,
                                                itineraryResult))
                 /\ now' = now + 1
                 /\ response' = PlanReply(Len(itineraryStore'),
                                          itineraryStore'[Len(itineraryStore')])
                 /\ UNCHANGED pending

Plan(body, researchResult, safetyResult, itineraryResult) ==
    PlanWithin(MaxSessions, body, researchResult, safetyResult, itineraryResult)

----------------------------------------------------------------------------
(* POST /api/confirm-component *)

\* faulty variant: the record is written under every session id (C20
\* rejects it)
PutRecordInEverySession(itineraryId, record) ==
    [id \in DOMAIN itineraryStore |-> record]

\* the table after the record that itineraryStore.get(itineraryId) returned
\* has been assigned to: the handlers change that one object in place
PutRecord(itineraryId, record) ==
    [itineraryStore EXCEPT ![itineraryId] = record]

\* faulty variant of the early returns: the option is not looked up among
\* the component's options (C4 rejects it)
ConfirmErrorWithoutOptionLookup(itineraryId, componentType, optionId) ==
    IF itineraryId = 0 \/ componentType = "" \/ optionId = "" THEN "RequiredFields"
    ELSE IF componentType \notin Range(TRIP_COMPONENTS) THEN "UnknownComponent"
    ELSE IF itineraryId \notin DOMAIN itineraryStore THEN "SessionNotFound"
    ELSE IF componentType \notin DOMAIN itineraryStore[itineraryId].itinerary.components
         THEN "ComponentUnavailable"
    ELSE "ok"

\* faulty variant of the early returns: the session is looked up before the
\* component name is checked (C9 rejects it)
ConfirmErrorSessionLookupFirst(itineraryId, componentType, optionId) ==
    IF itineraryId = 0 \/ componentType = "" \/ optionId = "" THEN "RequiredFields"
    ELSE IF itineraryId \notin DOMAIN itineraryStore THEN "SessionNotFound"
    ELSE IF componentType \notin Range(TRIP_COMPONENTS) THEN "UnknownComponent"
    ELSE IF componentType \notin DOMAIN itineraryStore[itineraryId].itinerary.components
         THEN "ComponentUnavailable"
    ELSE IF ~IsDefined(FindOption(
                itineraryStore[itineraryId].itinerary.components[componentType].options,
                optionId))
         THEN "OptionNotOffered"
    ELSE "ok"

\* the early returns of the handler: the error it answers with, or "ok"
ConfirmError(itineraryId, componentType, optionId) ==
    IF itineraryId = 0 \/ componentType = "" \/ optionId = "" THEN "RequiredFields"
    ELSE IF componentType \notin Range(TRIP_COMPONENTS) THEN "UnknownComponent"
    ELSE IF itineraryId \notin DOMAIN itineraryStore THEN "SessionNotFound"
    ELSE IF componentType \notin DOMAIN itineraryStore[itineraryId].itinerary.components
         THEN "ComponentUnavailable"
    ELSE IF ~IsDefined(FindOption(
                itineraryStore[itineraryId].itinerary.components[componentType].options,
                optionId))
         THEN "OptionNotOffered"
    ELSE "ok"

ErrorStatus(error) == IF error = "SessionNotFound" THEN 404 ELSE 400

\* faulty variant: the confirmed option is also made the component's
\* recommended option (C21 rejects it)
RecordConfirmationMarkingRecommended(record, componentType, optionId, confirmedAt) ==
    [record EXCEPT
        !.confirmations[componentType] =
            Just([optionId |-> optionId, confirmedAt |-> confirmedAt]),
        !.itinerary.components[componentType].recommendedOptionId = optionId]

\* record.confirmations[componentType] = {optionId, confirmedAt}
RecordConfirmation(record, componentType, optionId, confirmedAt) ==
    [record EXCEPT !.confirmations[componentType] =
        Just([optionId |-> optionId, confirmedAt |-> confirmedAt])]

\* faulty variant of the flight block: the car confirmation is left standing
\* (C1 rejects it)
FlightCascadeKeepingCar(record, componentType, optionId) ==
    IF componentType = "flight"
    THEN [record EXCEPT
            !.itinerary = recomputeDependentComponentsFromFlight(record.itinerary, optionId),
            !.confirmations.hotel = Undefined,
            !.finalReview = Undefined]
    ELSE record

\* faulty variant of the flight block: of the flight options only the
\* confirmed one is kept (C37 rejects it)
FlightCascadeKeepingConfirmedOnly(record, componentType, optionId) ==
    IF componentType = "flight"
    THEN LET itinerary == recomputeDependentComponentsFromFlight(record.itinerary, optionId)
         IN [record EXCEPT
               !.itinerary =
                   [itinerary EXCEPT !.components.flight.options =
                       SelectSeq(itinerary.components.flight.options,
                                 LAMBDA option : option.id = optionId)],
               !.confirmations.hotel = Undefined,
               !.confirmations.carRental = Undefined,
               !.finalReview = Undefined]
    ELSE record

\* faulty variant of the flight block: nothing is done when the confirmed
\* flight is the one the itinerary already recommends (C36 rejects it)
FlightCascadeUnlessSameFlight(record, componentType, optionId) ==
    IF componentType = "flight"
       /\ record.itinerary.components.flight.recommendedOptionId # optionId
    THEN [record EXCEPT
            !.itinerary = recomputeDependentComponentsFromFlight(record.itinerary, optionId),
            !.confirmations.hotel = Undefined,
            !.confirmations.carRental = Undefined,
            !.finalReview = Undefined]
    ELSE record

\* the `if (componentType === "flight")` block
FlightCascade(record, componentType, optionId) ==
    IF componentType = "flight"
    THEN [record EXCEPT
            !.itinerary = recomputeDependentComponentsFromFlight(record.itinerary, optionId),
            !.confirmations.hotel = Undefined,
            !.confirmations.carRental = Undefined,
            !.finalReview = Undefined]
    ELSE record

\* what createFinalReview reads before it awaits the agent: the ids of the
\* confirmed options that are among the component's options
SelectedOptionId(record, componentType) ==
    LET confirmation == record.confirmations[componentType]
    IN IF IsDefined(confirmation)
          /\ IsDefined(FindOption(record.itinerary.components[componentType].options,
                                  Get(confirmation).optionId))
       THEN Get(confirmation).optionId ELSE Null

selectedComponents(record) ==
    [c \in Range(TRIP_COMPONENTS) |-> SelectedOptionId(record, c)]

ConfirmComponent(itineraryId, componentType, optionId) ==
    LET error == ConfirmError(itineraryId, componentType, optionId)
    IN IF error # "ok"
       THEN /\ response' = Reply("confirm", ErrorStatus(error), error)
            /\ UNCHANGED <<itineraryStore, pending, now>>
       ELSE LET recorded == RecordConfirmation(itineraryStore[itineraryId], componentType,
                                               optionId, now)
                record == FlightCascade(recorded, componentType, optionId)
                remainingComponent == nextComponentToConfirm(record.confirmations)
            IN /\ now < MaxClock
               /\ now' = now + 1
               /\ itineraryStore' = PutRecord(itineraryId, record)
               /\ IF remainingComponent # Null
                  THEN /\ response' = ConfirmReply(itineraryId, record, remainingComponent)
                       /\ UNCHANGED pending
                  ELSE /\ Len(pending) < MaxPending
                       /\ pending' = Append(pending,
                                        [itineraryId |-> itineraryId,
                                         remainingComponent |-> remainingComponent,
                                         selected |-> selectedComponents(record)])
                       /\ response' = Suspended

\* the replies the final-review agent can give to a suspended request
ReviewResults(request) ==
    StageFailures \cup {StageNull, StageJson([finalSummary |-> request.selected])}

\* the rest of createFinalReview: the parsed reply, or the failure thrown
createFinalReview(reviewResult) == parseAgentJson(reviewResult, "finalReviewAgent")

\* the continuation of the handler after `await createFinalReview(..)`
FinalReviewReturns(i, reviewResult) ==
    LET request == pending[i]
        parsed == createFinalReview(reviewResult)
    IN /\ pending' = Remove(pending, i)
       /\ UNCHANGED now
       /\ IF ~parsed.ok
          THEN /\ response' = Rejected(parsed.error[1])
               /\ UNCHANGED itineraryStore
          ELSE /\ itineraryStore' =
                      PutRecord(request.itineraryId,
                                [itineraryStore[request.itineraryId] EXCEPT
                                    !.finalReview = parsed.value])
               /\ response' = ConfirmReply(request.itineraryId,
                                           itineraryStore'[request.itineraryId],
                                           request.remainingComponent)

----------------------------------------------------------------------------
(* POST /api/final-confirmation *)

\* faulty variant of the early returns: pending components are not looked for
\* (C5 rejects it)
FinalErrorWithoutPendingCheck(itineraryId, approved) ==
    IF itineraryId = 0 \/ ~IsDefined(approved) THEN "RequiredFields"
    ELSE IF itineraryId \notin DOMAIN itineraryStore THEN "SessionNotFound"
    ELSE "ok"

\* the early returns of the handler: the error it answers with, or "ok"
FinalError(itineraryId, approved) ==
    IF itineraryId = 0 \/ ~IsDefined(approved) THEN "RequiredFields"
    ELSE IF itineraryId \notin DOMAIN itineraryStore THEN "SessionNotFound"
    ELSE IF nextComponentToConfirm(itineraryStore[itineraryId].confirmations) # Null
         THEN "PendingComponents"
    ELSE "ok"

\* faulty variant of the decision: the final review is dropped with it
\* (C6 rejects it)
RecordDecisionDroppingReview(record, approved, decidedAt) ==
    [record EXCEPT !.finalConfirmed = approved,
                   !.finalConfirmationAt = Just(decidedAt),
                   !.finalReview = Undefined]

\* record.finalConfirmed = approved; record.finalConfirmationAt = new Date()
RecordDecision(record, approved, decidedAt) ==
    [record EXCEPT !.finalConfirmed = approved,
                   !.finalConfirmationAt = Just(decidedAt)]

FinalConfirmation(itineraryId, approved) ==
    LET error == FinalError(itineraryId, approved)
    IN IF error # "ok"
       THEN /\ response' =
                 [Reply("final", ErrorStatus(error), error) EXCEPT
                    !.detail = IF error = "PendingComponents"
                               THEN nextComponentToConfirm(
                                        itineraryStore[itineraryId].confirmations)
                               ELSE NoString]
            /\ UNCHANGED <<itineraryStore, pending, now>>
       ELSE /\ now < MaxClock
            /\ now' = now + 1
            /\ itineraryStore' =
                   PutRecord(itineraryId,
                             RecordDecision(itineraryStore[itineraryId], Get(approved), now))
            /\ response' = FinalReply(itineraryId, Get(approved))
            /\ UNCHANGED pending

----------------------------------------------------------------------------
(* One planning run, stage by stage.  buildItineraryDraft is suspended     *)
(* only in `await runAgentWithTelemetry(..)`; each action below is the     *)
(* code between two suspensions.  The run is called by POST /api/plan      *)
(* (sink "none": emit is the empty function), by POST /api/plan-stream     *)
(* (sink "sse": emit is pushEvent("activity", ..)) or by a caller that     *)
(* passes an onEvent callback of its own (sink "callback"), which may      *)
(* fail.  Timestamps of the envelopes are left out.                        *)

STAGES == <<"research", "safety", "composition">>
AgentNames == [research |-> "researchAgent", safety |-> "safetyPackingAgent",
               composition |-> "itineraryAgent"]
NextStage == [research |-> "safety", safety |-> "composition", composition |-> "done"]
StageResults == [research |-> ResearchResults, safety |-> SafetyResults,
                 composition |-> ItineraryResults]

Event(type, stage) == [type |-> type, stage |-> stage]

\* what the input text of a stage is made of: researchInput and safetyInput
\* are joined from the preferences before the first stage runs,
\* itineraryInput from the preferences, researchJson and safetyJson
StageInput(stage, preferences, researchJson, safetyJson) ==
    IF stage = "composition"
    THEN [preferences |-> preferences, research |-> researchJson,
          safety |-> safetyJson]
    ELSE [preferences |-> preferences, research |-> Undefined,
          safety |-> Undefined]

\* faulty variant of pushEvent: the closed flag is not looked at (C17
\* rejects it)
pushEventIgnoringClose(stream, closed, eventName, payload) ==
    Append(stream, [event |-> eventName, type |-> payload.type, stage |-> payload.stage])

\* pushEvent(eventName, payload): the stream after the call
pushEvent(stream, closed, eventName, payload) ==
    IF closed THEN stream
    ELSE Append(stream, [event |-> eventName, type |-> payload.type,
                         stage |-> payload.stage])

\* pushEvent called for each payload in turn
RECURSIVE pushEvents(_, _, _, _)
pushEvents(stream, closed, eventName, payloads) ==
    IF payloads = <<>> THEN stream
    ELSE pushEvents(pushEvent(stream, closed, eventName, Head(payloads)),
                    closed, eventName, Tail(payloads))

\* what buildItineraryDraft emits before its first await
OpeningEvents ==
    << Event("stage_started", "initialization"),
       Event("stage_completed", "initialization"),
       Event("stage_started", "research"),
       Event("agent_prompt", "research") >>

\* faulty variant: stage_completed is emitted whether or not the reply
\* parses (C16 rejects it)
EventsAfterRunCompletingAlways(stage, calls, result) ==
    (IF calls = 0 THEN <<Event("tool_notice", stage)>> ELSE <<>>)
    \o <<Event("agent_response", stage), Event("stage_completed", stage)>>

\* what is emitted once the agent run of `stage` has ended without a runner
\* error: the tail of runAgentWithTelemetry, then stage_completed when the
\* reply parses
EventsAfterRun(stage, calls, result) ==
    (IF calls = 0 THEN <<Event("tool_notice", stage)>> ELSE <<>>)
    \o <<Event("agent_response", stage)>>
    \o (IF parseAgentJson(result, AgentNames[stage]).ok
        THEN <<Event("stage_completed", stage)>> ELSE <<>>)

\* what is emitted before the await of the next stage
EventsBeforeRun(stage) == <<Event("stage_started", stage), Event("agent_prompt", stage)>>

\* faulty variant: done is written after the error event too (C19 rejects it)
TerminalEventsDoneAfterError(ok) ==
    IF ok THEN <<Event("result", NoString), Event("done", NoString)>>
    ELSE <<Event("error", NoString), Event("done", NoString)>>

\* the events POST /api/plan-stream pushes after buildItineraryDraft: result
\* and done in the try block, error in the catch block
TerminalEvents(ok) ==
    IF ok THEN <<Event("result", NoString), Event("done", NoString)>>
    ELSE <<Event("error", NoString)>>

RECURSIVE pushTerminal(_, _, _)
pushTerminal(stream, closed, payloads) ==
    IF payloads = <<>> THEN stream
    ELSE pushTerminal(pushEvent(stream, closed, Head(payloads).type, Head(payloads)),
                      closed, Tail(payloads))

\* buildItineraryDraft throws (after emitting `events`) and its caller
\* handles the failure
Abort(events, error) ==
    /\ pc' = "done"
    /\ outcome' = "threw"
    /\ emitted' = emitted \o events
    /\ written' = IF sink' = "sse"
                  THEN pushTerminal(pushEvents(written, responseClosed, "activity", events),
                                    responseClosed, TerminalEvents(FALSE))
                  ELSE written
    /\ ended' = (sink' = "sse" /\ ~responseClosed)
    /\ response' = IF sink' = "none"
                   THEN [Reply("plan", 500, "StageOutputInvalid") EXCEPT !.detail = error[1]]
                   ELSE response
    /\ UNCHANGED <<itineraryStore, now>>

\* buildItineraryDraft returns the draft (after emitting `events`) and its
\* caller stores and answers it
Complete(events, itineraryDraft) ==
    /\ pc' = "done"
    /\ outcome' = "returned"
    /\ emitted' = emitted \o events
    /\ IF sink = "callback"
       THEN UNCHANGED <<itineraryStore, now, response, written, ended>>
       ELSE /\ Len(itineraryStore) < MaxSessions
            /\ now < MaxClock
            /\ itineraryStore' = storeItineraryRecord(runPreferences, itineraryDraft)
            /\ now' = now + 1
            /\ IF sink = "none"
               THEN /\ response' = PlanReply(Len(itineraryStore'),
                                             itineraryStore'[Len(itineraryStore')])
                    /\ UNCHANGED <<written, ended>>
               ELSE /\ written' =
                        pushTerminal(pushEvents(written, responseClosed, "activity", events),
                                     responseClosed, TerminalEvents(TRUE))
                    /\ ended' = ~responseClosed
                    /\ UNCHANGED response

\* the synchronous start of buildItineraryDraft, up to the await of research
StartRun(body, caller, broken) ==
    /\ sink' = caller
    /\ runPreferences' = body
    /\ sinkBroken' = broken
    /\ replies' = <<>>
    /\ toolCalls' = 0
    /\ responseClosed' = FALSE
    /\ UNCHANGED pending
    /\ IF broken
       THEN /\ invoked' = <<>>
            /\ Abort(<<>>, <<"onEvent">>)
       ELSE /\ emitted' = OpeningEvents
            /\ invoked' = <<[stage |-> "research", at |-> Len(OpeningEvents),
                              input |-> StageInput("research", body, Undefined,
                                                   Undefined)]>>
            /\ pc' = "research"
            /\ written' = IF caller = "sse"
                          THEN pushEvents(<<>>, FALSE, "activity",
                                   <<Event("planning_started", "initialization")>>
                                   \o OpeningEvents)
                          ELSE <<>>
            /\ UNCHANGED <<itineraryStore, now, response, ended, outcome>>

\* POST /api/plan up to the first await
PlanRequest(body) ==
    /\ pc = "idle"
    /\ IF ~validateTripRequest(body)
       THEN /\ response' = Reply("plan", 400, "InvalidInput")
            /\ UNCHANGED <<itineraryStore, pending, now, runVars>>
       ELSE StartRun(body, "none", FALSE)

\* POST /api/plan-stream up to the first await
PlanStream(body) ==
    /\ pc = "idle"
    /\ IF ~validateTripRequest(body)
       THEN /\ response' = Reply("plan-stream", 400, "InvalidInput")
            /\ UNCHANGED <<itineraryStore, pending, now, runVars>>
       ELSE StartRun(body, "sse", FALSE)

\* buildItineraryDraft(preferences, {onEvent}) called with a callback that
\* works or fails from the start
BuildDraft(body, broken) ==
    /\ pc = "idle"
    /\ validateTripRequest(body)
    /\ StartRun(body, "callback", broken)

\* the agent run reports a tool call while the stage is awaited
ToolCall ==
    /\ pc \in Range(STAGES)
    /\ toolCalls < MaxToolCalls
    /\ UNCHANGED <<sink, runPreferences, replies, invoked, responseClosed, sinkBroken,
                   pending>>
    /\ IF sinkBroken
       THEN /\ toolCalls' = toolCalls
            /\ Abort(<<>>, <<"onEvent">>)
       ELSE /\ toolCalls' = toolCalls + 1
            /\ emitted' = Append(emitted, Event("tool_call_started", pc))
            /\ written' = IF sink = "sse"
                          THEN pushEvent(written, responseClosed, "activity",
                                         Event("tool_call_started", pc))
                          ELSE written
            /\ UNCHANGED <<pc, ended, outcome, itineraryStore, now, response>>

\* the awaited agent run of the current stage ends with `result`
AgentReturns(result) ==
    /\ pc \in Range(STAGES)
    /\ replies' = Append(replies, result)
    /\ toolCalls' = 0
    /\ UNCHANGED <<sink, runPreferences, responseClosed, sinkBroken, pending>>
    /\ LET parsed == parseAgentJson(result, AgentNames[pc])
           events == EventsAfterRun(pc, toolCalls, result)
       IN IF result.kind = "error"
          THEN Abort(<<>>, parsed.error) /\ UNCHANGED invoked
          ELSE IF sinkBroken
          THEN Abort(<<>>, <<"onEvent">>) /\ UNCHANGED invoked
          ELSE IF ~parsed.ok
          THEN Abort(events, parsed.error) /\ UNCHANGED invoked
          ELSE IF pc # "composition"
          THEN /\ emitted' = emitted \o events \o EventsBeforeRun(NextStage[pc])
               /\ invoked' =
                     Append(invoked,
                            [stage |-> NextStage[pc], at |-> Len(emitted'),
                             input |-> StageInput(NextStage[pc], runPreferences,
                                           replies'[1].value,
                                           IF pc = "safety" THEN result.value
                                           ELSE Undefined)])
               /\ pc' = NextStage[pc]
               /\ written' = IF sink = "sse"
                             THEN pushEvents(written, responseClosed, "activity",
                                             events \o EventsBeforeRun(NextStage[pc]))
                             ELSE written
               /\ UNCHANGED <<itineraryStore, now, response, ended, outcome>>
          ELSE /\ Complete(events,
                           normalizeItinerary(Get(result.value), Get(replies[1].value),
                                              runPreferences))
               /\ UNCHANGED invoked

\* res.on("close") / req.on("aborted") while the run is suspended
CallerLeaves ==
    /\ sink = "sse"
    /\ pc \in Range(STAGES)
    /\ ~responseClosed
    /\ responseClosed' = TRUE
    /\ UNCHANGED <<itineraryStore, pending, now, response, sink, pc, runPreferences,
                   replies, invoked, toolCalls, emitted, written, ended, sinkBroken,
                   outcome>>

\* the caller's onEvent callback starts to fail while the run is suspended
SinkBreaks ==
    /\ sink = "callback"
    /\ pc \in Range(STAGES)
    /\ ~sinkBroken
    /\ sinkBroken' = TRUE
    /\ UNCHANGED <<itineraryStore, pending, now, response, sink, pc, runPreferences,
                   replies, invoked, toolCalls, emitted, written, responseClosed, ended,
                   outcome>>

----------------------------------------------------------------------------
(* Functions of tripPlanner.js called by themselves *)

NoCall == [fn |-> "none"]

\* everything but the call and its result
storeVars == <<itineraryStore, pending, now, response, runVars>>

----------------------------------------------------------------------------
(* parseAgentJson on the text itself.  A text is a sequence of characters; *)
(* "BQ", "LF", "TAB" and "NBSP" stand for the backquote, the line feed,    *)
(* the tab and the no-break space.  The JSON values of these texts are     *)
(* objects without members and arrays: <<"object">>, <<"array">>,          *)
(* <<"array", item>>.                                                      *)

\* what String.prototype.trim removes
WhiteSpace == {" ", "LF", "TAB", "NBSP"}
\* what JSON.parse skips between tokens
JsonWhiteSpace == {" ", "LF", "TAB"}
\* three backquotes
Fence == <<"BQ", "BQ", "BQ">>
JsonTag == <<"j", "s", "o", "n">>
\* cleaned.slice(0, 200)
SliceLimit == 200

startsWith(text, prefix) ==
    Len(text) >= Len(prefix) /\ SubSeq(text, 1, Len(prefix)) = prefix
endsWith(text, suffix) ==
    Len(text) >= Len(suffix) /\ SubSeq(text, Len(text) - Len(suffix) + 1, Len(text)) = suffix

trim(text) ==
    LET kept == {i \in 1..Len(text) : text[i] \notin WhiteSpace}
    IN IF kept = {} THEN <<>>
       ELSE SubSeq(text, CHOOSE i \in kept : \A j \in kept : i <= j,
                         CHOOSE i \in kept : \A j \in kept : i >= j)

\* faulty variant: a text that only starts with a fence has the opening
\* fence removed (C23 rejects it)
stripMarkdownCodeFenceUnclosed(text) ==
    IF startsWith(text, Fence)
    THEN LET opened == SubSeq(text, Len(Fence) + 1, Len(text))
             untagged == IF startsWith(opened, JsonTag)
                         THEN SubSeq(opened, Len(JsonTag) + 1, Len(opened)) ELSE opened
             unbroken == IF startsWith(untagged, <<"LF">>) THEN Tail(untagged) ELSE untagged
             closed == IF endsWith(unbroken, Fence)
                       THEN SubSeq(unbroken, 1, Len(unbroken) - Len(Fence)) ELSE unbroken
         IN trim(closed)
    ELSE text

\* a text that starts and ends with a fence loses the opening fence with a
\* json tag and a line feed after it, then a closing fence, and is trimmed
stripMarkdownCodeFence(text) ==
    IF startsWith(text, Fence) /\ endsWith(text, Fence)
    THEN LET opened == SubSeq(text, Len(Fence) + 1, Len(text))
             untagged == IF startsWith(opened, JsonTag)
                         THEN SubSeq(opened, Len(JsonTag) + 1, Len(opened)) ELSE opened
             unbroken == IF startsWith(untagged, <<"LF">>) THEN Tail(untagged) ELSE untagged
             closed == IF endsWith(unbroken, Fence)
                       THEN SubSeq(unbroken, 1, Len(unbroken) - Len(Fence)) ELSE unbroken
         IN trim(closed)
    ELSE text

\* the value of a text without white space, Undefined when it is not one
\* JSON value
RECURSIVE ParseValue(_)
ParseValue(tokens) ==
    IF tokens = <<"{", "}">> THEN Just(<<"object">>)
    ELSE IF Len(tokens) >= 2 /\ tokens[1] = "[" /\ tokens[Len(tokens)] = "]"
    THEN LET inner == SubSeq(tokens, 2, Len(tokens) - 1)
         IN IF inner = <<>> THEN Just(<<"array">>)
            ELSE LET item == ParseValue(inner)
                 IN IF IsDefined(item) THEN Just(<<"array", Get(item)>>) ELSE Undefined
    ELSE Undefined

\* JSON.parse: the value, or Undefined when it throws
JSONparse(text) ==
    ParseValue(SelectSeq(text, LAMBDA c : c \notin JsonWhiteSpace))

\* parseAgentJson(rawText, agentName): the value returned, or the error
\* thrown as <<agentName, message, the text quoted in the message>>
parseAgentJsonOfText(rawText, agentName) ==
    LET text == trim(rawText)
    IN IF text = <<>>
       THEN [ok |-> FALSE, error |-> <<agentName, "returned empty output", <<>> >>,
             value |-> Undefined]
       ELSE LET cleaned == stripMarkdownCodeFence(text)
                parsed == JSONparse(cleaned)
            IN IF IsDefined(parsed)
               THEN [ok |-> TRUE, error |-> <<>>, value |-> parsed]
               ELSE [ok |-> FALSE,
                     error |-> <<agentName, "did not return valid JSON",
                                 SubSeq(cleaned, 1,
                                        IF Len(cleaned) < SliceLimit THEN Len(cleaned)
                                        ELSE SliceLimit)>>,
                     value |-> Undefined]

\* a run of n characters that are not JSON
Garbage(n) == [i \in 1..n |-> "x"]

\* texts an agent may answer with: white space, an opening fence, a tag, a
\* line break, a body, a closing fence, white space
TextBodies ==
    { <<>>, <<"{", "}">>, <<"{", " ", "}">>, <<"[", "]">>, <<"[", "{", "}", "]">>,
      <<"{", "x", "}">>, <<"{", "NBSP", "}">>, <<"{", "}", "{", "}">>, <<"{">>,
      Garbage(1), Garbage(SliceLimit - 1), Garbage(SliceLimit + 1) }
AgentTexts ==
    { lead \o open \o tag \o break \o gap \o body \o gap2 \o close \o trail :
        lead \in {<<>>, <<" ">>, <<"NBSP", "LF">>},
        open \in {<<>>, Fence},
        tag \in {<<>>, JsonTag, <<"x">>},
        break \in {<<>>, <<"LF">>},
        gap \in {<<>>, <<" ">>},
        body \in TextBodies,
        gap2 \in {<<>>, <<"LF">>},
        close \in {<<>>, Fence},
        trail \in {<<>>, <<"LF", " ">>} }

ParseCalls ==
    { [fn |-> "parseAgentJson", rawText |-> text, agentName |-> agentName] :
        text \in AgentTexts, agentName \in {"researchAgent", "itineraryAgent"} }

\* parseAgentJson(rawText, agentName) is called
ParseText ==
    /\ call.fn = "parseAgentJson"
    /\ callResult = Undefined
    /\ callResult' = Just(parseAgentJsonOfText(call.rawText, call.agentName))
    /\ UNCHANGED <<call, storeVars>>

\* timestamps of research flights: dates in and out of a leap year, hours
\* and offsets that put the instant on another day, a month that does not
\* exist, text that is no timestamp, no value
ArrivalTimes ==
    { Iso(2026, 3, 22, 8, 1), Iso(2026, 3, 21, 23, -5), Iso(2026, 2, 27, 6, 0),
      Iso(2024, 2, 28, 20, 9), Iso(2026, 13, 1, 0, 0), TextTime }
DepartureTimes ==
    { Iso(2026, 3, 29, 10, 1), Iso(2026, 3, 22, 1, 0), Iso(2026, 3, 1, 0, -8),
      Iso(2024, 3, 1, 5, 0), NoTime }
FlightsTimed(id) ==
    { FlightOption(id, Just(120000), arrival, departure) :
        arrival \in ArrivalTimes, departure \in DepartureTimes }
FlightLists ==
    {<<>>} \cup {<<x>> : x \in FlightsTimed("f1")}
           \cup {<<x, y>> : x \in FlightsTimed("f1"), y \in FlightsTimed("f2")}
           \cup {<<x, x, y>> : x \in {FlightOption("f1", Just(90000), TextTime, NoTime)},
                               y \in FlightsTimed("f1")}

\* preferences as buildItineraryDraft may be handed them: four that the
\* request schema accepts (8 days apart; 36 hours apart; 12 hours apart; 20
\* hours apart with dates two days apart) and four it refuses
StayPreferences ==
    { Prefs(Iso(2026, 3, 21, 0, 0), Iso(2026, 3, 29, 0, 0), 8),
      Prefs(Iso(2026, 3, 21, 0, 0), Iso(2026, 3, 22, 12, 0), 1),
      Prefs(Iso(2026, 3, 21, 20, 0), Iso(2026, 3, 22, 8, 0), 1),
      Prefs(Iso(2026, 3, 21, 22, -5), Iso(2026, 3, 23, 1, 2), 2),
      Prefs(Iso(2026, 3, 29, 0, 0), Iso(2026, 3, 21, 0, 0), 8),
      Prefs(Iso(2026, 3, 21, 0, 0), Iso(2026, 3, 21, 0, 0), 3),
      Prefs(TextTime, TextTime, 1),
      Prefs(TextTime, NoTime, 0) }

StayCalls ==
    { [fn |-> "computeDestinationStay", recommendedOptionId |-> id,
       flightOptions |-> flights, preferences |-> preferences] :
        id \in {NoString, "f1", "f2", "f9"}, flights \in FlightLists,
        preferences \in StayPreferences }

\* computeDestinationStay(itinerary, researchJson, preferences) is called
ComputeStay ==
    /\ call.fn = "computeDestinationStay"
    /\ callResult = Undefined
    /\ callResult' =
          Just(computeDestinationStay(
                   ItineraryDoc(Undefined,
                                Component(<<>>, call.recommendedOptionId, NoString),
                                NoComponent, NoComponent, Undefined, Undefined),
                   ResearchDoc(call.flightOptions, <<>>, <<>>, <<>>),
                   call.preferences))
    /\ UNCHANGED <<call, storeVars>>

\* stay windows handed to the hotel and car passes: the composition stage's
\* placeholder (0 days, 0 nights), a same-day flight's (1 day, 0 nights), and
\* the windows of a 2-day and of an 8-day stay
StayWindows == {Stay(0, 0), Stay(1, 0), Stay(2, 1), Stay(8, 7)}

\* hotel options as the research stage may give them: complete and
\* consistent ($250 x 7 = $1750), inconsistent, without a nightly rate (a
\* cost that divides by the nights, and one that does not), with a cost
\* only, with zero declared nights, and with no number at all
HotelOptionsOf(id) ==
    { HotelOption(id, Just(25000), Just(7), Just(175000)),
      HotelOption(id, Just(25000), Just(5), Just(99900)),
      HotelOption(id, Undefined, Just(3), Just(90000)),
      HotelOption(id, Undefined, Just(3), Just(100000)),
      HotelOption(id, Undefined, Undefined, Just(50000)),
      HotelOption(id, Undefined, Just(0), Just(50000)),
      HotelOption(id, Undefined, Undefined, Undefined) }
HotelLists ==
    {<<>>} \cup {<<x>> : x \in HotelOptionsOf("h1")}
           \cup {<<x, y>> : x \in HotelOptionsOf("h1"), y \in HotelOptionsOf("h2")}
HotelCalls ==
    { [fn |-> "normalizeHotelComponent",
       component |-> Component(options, id, NoString),
       fallbackOptions |-> fallbackOptions, computedStay |-> stay] :
        options \in HotelLists, id \in {NoString, "h2"},
        fallbackOptions \in {<<>>, ResearchHotels}, stay \in StayWindows }

\* normalizeHotelComponent(component, fallbackOptions, computedStay) is called
NormalizeHotel ==
    /\ call.fn = "normalizeHotelComponent"
    /\ callResult = Undefined
    /\ callResult' = Just(normalizeHotelComponent(call.component, call.fallbackOptions,
                                                  call.computedStay))
    /\ UNCHANGED <<call, storeVars>>

\* car options as the research stage may give them: complete and consistent
\* ($50 x 8 = $400), inconsistent, without a daily rate (a cost that divides
\* by the days, and one that does not), with a cost only, with zero declared
\* days, and with no number at all
CarOptionsOf(id) ==
    { CarOption(id, Just(5000), Just(8), Just(40000)),
      CarOption(id, Just(5000), Just(3), Just(99900)),
      CarOption(id, Undefined, Just(3), Just(30000)),
      CarOption(id, Undefined, Just(3), Just(10000)),
      CarOption(id, Undefined, Undefined, Just(30000)),
      CarOption(id, Undefined, Just(0), Just(30000)),
      CarOption(id, Undefined, Undefined, Undefined) }
CarLists ==
    {<<>>} \cup {<<x>> : x \in CarOptionsOf("c1")}
           \cup {<<x, y>> : x \in CarOptionsOf("c1"), y \in CarOptionsOf("c2")}
CarCalls ==
    { [fn |-> "normalizeCarComponent",
       component |-> Component(options, id, NoString),
       fallbackOptions |-> fallbackOptions, computedStay |-> stay] :
        options \in CarLists, id \in {NoString, "c2"},
        fallbackOptions \in {<<>>, ResearchCars}, stay \in StayWindows }

\* normalizeCarComponent(component, fallbackOptions, computedStay) is called
NormalizeCar ==
    /\ call.fn = "normalizeCarComponent"
    /\ callResult = Undefined
    /\ callResult' = Just(normalizeCarComponent(call.component, call.fallbackOptions,
                                                call.computedStay))
    /\ UNCHANGED <<call, storeVars>>

\* components handed to the cost aggregator: no option, one, two, two with
\* the same id; options with and without a direct cost; a recommended id
\* that is missing, the first option's, the second's, or no option's
PricedFlights ==
    { <<>>,
      <<FlightOption("f1", Just(120000), NoTime, NoTime)>>,
      <<FlightOption("f1", Just(120000), NoTime, NoTime),
        FlightOption("f2", Just(90000), NoTime, NoTime)>>,
      <<FlightOption("f1", Undefined, NoTime, NoTime),
        FlightOption("f2", Just(90000), NoTime, NoTime)>>,
      <<FlightOption("f1", Just(120000), NoTime, NoTime),
        FlightOption("f2", Just(90000), NoTime, NoTime),
        FlightOption("f2", Just(70000), NoTime, NoTime)>> }
PricedHotelsOf(id) ==
    { HotelOption(id, Just(25000), Just(7), Just(180000)),
      HotelOption(id, Just(10000), Just(3), Undefined),
      HotelOption(id, Just(10000), Undefined, Undefined),
      HotelOption(id, Undefined, Undefined, Undefined) }
PricedHotels ==
    {<<>>} \cup {<<x>> : x \in PricedHotelsOf("h1")}
           \cup {<<x, y>> : x \in PricedHotelsOf("h1"), y \in PricedHotelsOf("h2")}
           \cup {<<x, y, z>> : x \in {HotelOption("h1", Undefined, Undefined, Just(50000))},
                               y \in PricedHotelsOf("h2"),
                               z \in {HotelOption("h2", Just(9000), Just(2), Just(20000))}}
PricedCars ==
    { <<>>,
      <<CarOption("c1", Just(5000), Just(8), Just(40000)),
        CarOption("c2", Undefined, Undefined, Just(30000))>>,
      <<CarOption("c1", Just(5000), Just(8), Undefined),
        CarOption("c2", Undefined, Undefined, Just(30000))>> }
TotalsCalls ==
    { [fn |-> "estimateTotals",
       flight |-> Component(flights, flightId, NoString),
       hotel |-> Component(hotels, hotelId, NoString),
       carRental |-> Component(cars, carId, NoString)] :
        flights \in PricedFlights, flightId \in {NoString, "f1", "f2", "f9"},
        hotels \in PricedHotels, hotelId \in {NoString, "h1", "h2", "h9"},
        cars \in PricedCars, carId \in {NoString, "c2"} }

\* estimateTotals(itinerary) is called
EstimateTotals ==
    /\ call.fn = "estimateTotals"
    /\ callResult = Undefined
    /\ callResult' =
          Just(estimateTotals(ItineraryDoc(Undefined, call.flight, call.hotel,
                                           call.carRental,
                                           <<[estimatedCostUsd |-> Just(4000)]>>,
                                           Undefined)))
    /\ UNCHANGED <<call, storeVars>>

\* drafts as buildItineraryDraft returns them, from a research output with
\* three flights: f3 arrives 2026-03-22 and leaves 2026-03-27
ThreeFlights ==
    ResearchFlights
    \o <<FlightOption("f3", Just(100000), Iso(2026, 3, 22, 9, 1), Iso(2026, 3, 27, 10, 1))>>
RecomputeDrafts ==
    { normalizeItinerary(doc,
                         ResearchDoc(ThreeFlights, ResearchHotels, ResearchCars,
                                     <<[estimatedCostUsd |-> Just(4000)]>>),
                         Prefs(Iso(2026, 3, 21, 0, 0), Iso(2026, 3, 29, 0, 0), 8)) :
        doc \in ItineraryDocs }
FlightIdsOf(itinerary) ==
    {itinerary.components.flight.options[i].id :
        i \in 1..Len(itinerary.components.flight.options)}
\* flight confirmations in turn on one draft: up to two earlier ones, then
\* the one of confirmedFlightOptionId
RecomputeCalls ==
    { [fn |-> "recomputeDependentComponentsFromFlight", itinerary |-> draft,
       earlier |-> earlier, confirmedFlightOptionId |-> id] :
        draft \in RecomputeDrafts, earlier \in {<<>>, <<"f1">>, <<"f2">>, <<"f3">>,
                                                 <<"f1", "f3">>, <<"f3", "f1">>,
                                                 <<"f2", "f3">>, <<"f2", "f2">>},
        id \in {"f1", "f2", "f3"} }

\* record.itinerary = recomputeDependentComponentsFromFlight(record.itinerary,
\* optionId), for each flight confirmation in turn
RECURSIVE ConfirmFlightsInTurn(_, _)
ConfirmFlightsInTurn(itinerary, optionIds) ==
    IF optionIds = <<>> THEN itinerary
    ELSE ConfirmFlightsInTurn(
             recomputeDependentComponentsFromFlight(itinerary, Head(optionIds)),
             Tail(optionIds))

\* the flight confirmations of the call are made on its draft
RecomputeFromFlight ==
    /\ call.fn = "recomputeDependentComponentsFromFlight"
    /\ callResult = Undefined
    /\ \A i \in 1..Len(call.earlier) : call.earlier[i] \in FlightIdsOf(call.itinerary)
    /\ call.confirmedFlightOptionId \in FlightIdsOf(call.itinerary)
    /\ callResult' =
          Just(ConfirmFlightsInTurn(call.itinerary,
                                    Append(call.earlier, call.confirmedFlightOptionId)))
    /\ UNCHANGED <<call, storeVars>>

FunctionCalls ==
    ParseCalls \cup StayCalls \cup HotelCalls \cup CarCalls \cup TotalsCalls
    \cup RecomputeCalls

InitFunctions ==
    /\ itineraryStore = <<>>
    /\ pending = <<>>
    /\ now = 0
    /\ response = NoResponse
    /\ sink = "none"
    /\ pc = "idle"
    /\ runPreferences = Undefined
    /\ replies = <<>>
    /\ invoked = <<>>
    /\ toolCalls = 0
    /\ emitted = <<>>
    /\ written = <<>>
    /\ responseClosed = FALSE
    /\ ended = FALSE
    /\ sinkBroken = FALSE
    /\ outcome = "none"
    /\ call \in FunctionCalls
    /\ callResult = Undefined

FunctionsNext ==
    \/ ParseText
    \/ ComputeStay
    \/ NormalizeHotel
    \/ NormalizeCar
    \/ EstimateTotals
    \/ RecomputeFromFlight

\* one call of one function, for every function and every argument above
SpecFunctions == InitFunctions /\ [][FunctionsNext]_vars

----------------------------------------------------------------------------
(* Requests of the model *)

\* 0 is a missing id; MaxSessions + 1 is an id no session ever has
RequestIds == 0..(MaxSessions + 1)
ComponentTypes == {"flight", "hotel", "carRental", "train"}
OptionIds == {"f1", "f2", "h1", "c1"}
\* request bodies of POST /api/confirm-component: every combination of an
\* id, a component name and an option id, and one body for each field left out
ConfirmRequests ==
    ((RequestIds \ {0}) \X ComponentTypes \X OptionIds)
    \cup {<<0, "flight", "f1">>, <<1, "", "f1">>, <<1, "flight", "">>}
ApprovedValues == {Just(TRUE), Just(FALSE), Undefined}

Init ==
    /\ itineraryStore = <<>>
    /\ pending = <<>>
    /\ now = 0
    /\ response = NoResponse
    /\ sink = "none"
    /\ pc = "idle"
    /\ runPreferences = Undefined
    /\ replies = <<>>
    /\ invoked = <<>>
    /\ toolCalls = 0
    /\ emitted = <<>>
    /\ written = <<>>
    /\ responseClosed = FALSE
    /\ ended = FALSE
    /\ sinkBroken = FALSE
    /\ outcome = "none"
    /\ call = NoCall
    /\ callResult = Undefined

Next ==
    \/ \E body \in PlanBodies : \E run \in StageRuns(body) :
          Plan(body, run[1], run[2], run[3]) /\ UNCHANGED <<runVars, fnVars>>
    \/ \E request \in ConfirmRequests :
          ConfirmComponent(request[1], request[2], request[3]) /\ UNCHANGED <<runVars, fnVars>>
    \/ \E i \in 1..Len(pending) : \E r \in ReviewResults(pending[i]) :
          FinalReviewReturns(i, r) /\ UNCHANGED <<runVars, fnVars>>
    \/ \E id \in RequestIds, a \in ApprovedValues :
          FinalConfirmation(id, a) /\ UNCHANGED <<runVars, fnVars>>

\* the session state machine, each planning request taken as one step
Spec == Init /\ [][Next]_vars

PipelineNext ==
    \/ \E body \in PlanBodies : PlanRequest(body) /\ UNCHANGED fnVars
    \/ \E body \in PlanBodies : PlanStream(body) /\ UNCHANGED fnVars
    \/ \E body \in PlanBodies, broken \in BOOLEAN :
          BuildDraft(body, broken) /\ UNCHANGED fnVars
    \/ ToolCall /\ UNCHANGED fnVars
    \/ \E result \in (IF pc \in Range(STAGES) THEN StageResults[pc] ELSE {}) :
          AgentReturns(result) /\ UNCHANGED fnVars
    \/ CallerLeaves /\ UNCHANGED fnVars
    \/ SinkBreaks /\ UNCHANGED fnVars

\* one planning run, stage by stage
SpecPipeline == Init /\ [][PipelineNext]_vars

\* requests for the options a draft made from the research lists offers
SessionRequests ==
    (1..MaxSideBySide)
        \X {<<"flight", "f1">>, <<"flight", "f2">>, <<"hotel", "h1">>, <<"carRental", "c1">>}

SessionsNext ==
    \/ \E body \in {b \in PlanBodies : validateTripRequest(b)} :
          PlanWithin(MaxSideBySide, body,
                     StageJson(ResearchDoc(ResearchFlights, ResearchHotels, ResearchCars, <<>>)),
                     StageJson([safetyConcerns |-> <<>>, packingList |-> <<>>]),
                     StageJson(ItineraryDoc(Undefined, NoComponent, NoComponent,
                                            NoComponent, Undefined, Undefined)))
          /\ UNCHANGED <<runVars, fnVars>>
    \/ \E request \in SessionRequests :
          ConfirmComponent(request[1], request[2][1], request[2][2]) /\ UNCHANGED <<runVars, fnVars>>
    \/ \E i \in 1..Len(pending) : \E r \in ReviewResults(pending[i]) :
          FinalReviewReturns(i, r) /\ UNCHANGED <<runVars, fnVars>>
    \/ \E id \in 1..MaxSideBySide, a \in {Just(TRUE), Just(FALSE)} :
          FinalConfirmation(id, a) /\ UNCHANGED <<runVars, fnVars>>

\* several sessions side by side, every draft made from the same replies
SpecSessions == Init /\ [][SessionsNext]_vars

----------------------------------------------------------------------------
(* Properties *)

Confirmed(confirmations, componentType) == IsDefined(confirmations[componentType])
AllConfirmed(confirmations) ==
    /\ Confirmed(confirmations, "flight")
    /\ Confirmed(confirmations, "hotel")
    /\ Confirmed(confirmations, "carRental")
\* the first unconfirmed component in the order flight, hotel, carRental
FirstUnconfirmed(confirmations) ==
    IF ~Confirmed(confirmations, "flight") THEN "flight"
    ELSE IF ~Confirmed(confirmations, "hotel") THEN "hotel"
    ELSE IF ~Confirmed(confirmations, "carRental") THEN "carRental"
    ELSE Null
OptionIdsOf(record, componentType) ==
    {record.itinerary.components[componentType].options[i].id :
        i \in 1..Len(record.itinerary.components[componentType].options)}
\* a well-formed confirm request for an option the session offers
Offered(request) ==
    /\ request[1] \in DOMAIN itineraryStore
    /\ request[2] \in {"flight", "hotel", "carRental"}
    /\ request[3] \in OptionIdsOf(itineraryStore[request[1]], request[2])
SuspendedFor(itineraryId) == \E i \in 1..Len(pending) : pending[i].itineraryId = itineraryId

\* C1: a successful confirm(flight, optionId) leaves the hotel and carRental
\* confirmation records null and the FinalReview absent, and the flight
\* record holds optionId, whatever the confirmation state was before.
C1_FlightConfirmClears ==
    [][response'.op = "confirm" =>
       \A request \in ConfirmRequests :
        (/\ request[2] = "flight"
         /\ Offered(request)
         /\ ConfirmComponent(request[1], request[2], request[3]))
        => /\ response'.status = 200
           /\ itineraryStore'[request[1]].confirmations.hotel = Undefined
           /\ itineraryStore'[request[1]].confirmations.carRental = Undefined
           /\ itineraryStore'[request[1]].finalReview = Undefined
           /\ IsDefined(itineraryStore'[request[1]].confirmations.flight)
           /\ Get(itineraryStore'[request[1]].confirmations.flight).optionId = request[3]]_vars

\* C1 witness: a flight confirmation has just succeeded while a car
\* confirmation that found all three components confirmed is still
\* suspended, so hotel and car were confirmed before it and are null now.
C1_Witness ==
    /\ response.op = "confirm" /\ response.status = 200
    /\ Len(pending) > 0
    /\ LET record == itineraryStore[response.itineraryId]
       IN /\ IsDefined(record.confirmations.flight)
          /\ Get(record.confirmations.flight).confirmedAt = now - 1
          /\ record.confirmations.hotel = Undefined
          /\ record.confirmations.carRental = Undefined

\* C2: in every reachable state a FinalReview is present only if all three
\* components have a non-null confirmation.
C2_FinalReviewOnlyWhenAllConfirmed ==
    \A id \in DOMAIN itineraryStore :
        IsDefined(itineraryStore[id].finalReview)
            => AllConfirmed(itineraryStore[id].confirmations)

\* C3: no confirm request for a session gets at that session's record while
\* another confirm request for the same session is suspended in the
\* final-review generation call.
C3_ConfirmsAreSerialized ==
    [][response'.op = "confirm" =>
       \A request \in ConfirmRequests :
        (/\ request[1] \in DOMAIN itineraryStore
         /\ request[2] \in {"flight", "hotel", "carRental"}
         /\ request[3] # ""
         /\ ConfirmComponent(request[1], request[2], request[3]))
        => ~SuspendedFor(request[1])]_vars

\* C4: confirm(component, optionId) with an optionId that is not among the
\* component's options fails with OptionNotOffered and leaves the session
\* table as it was.
C4_OptionNotOfferedChangesNothing ==
    [][response'.op = "confirm" =>
       \A request \in ConfirmRequests :
        (/\ request[1] \in DOMAIN itineraryStore
         /\ request[2] \in {"flight", "hotel", "carRental"}
         /\ request[3] # ""
         /\ request[3] \notin OptionIdsOf(itineraryStore[request[1]], request[2])
         /\ ConfirmComponent(request[1], request[2], request[3]))
        => /\ response'.status = 400
           /\ response'.error = "OptionNotOffered"
           /\ itineraryStore' = itineraryStore
           /\ pending' = pending]_vars

\* C4 witness: an OptionNotOffered answer in a session that holds a
\* confirmation.
C4_Witness ==
    /\ response.op = "confirm" /\ response.error = "OptionNotOffered"
    /\ \E id \in DOMAIN itineraryStore :
          /\ Confirmed(itineraryStore[id].confirmations, "flight")
          /\ Confirmed(itineraryStore[id].confirmations, "hotel")

\* C5: finalApprove fails with PendingComponents whenever a component is
\* unconfirmed, names the first unconfirmed component in the order flight,
\* hotel, carRental, and leaves the decision and its timestamp unchanged.
C5_FinalApproveNeedsAllConfirmed ==
    [][response'.op = "final" =>
       \A id \in RequestIds, approved \in {Just(TRUE), Just(FALSE)} :
        (/\ id \in DOMAIN itineraryStore
         /\ ~AllConfirmed(itineraryStore[id].confirmations)
         /\ FinalConfirmation(id, approved))
        => /\ response'.status = 400
           /\ response'.error = "PendingComponents"
           /\ response'.detail = FirstUnconfirmed(itineraryStore[id].confirmations)
           /\ itineraryStore' = itineraryStore]_vars

\* C5 witness: the refusal names carRental, flight and hotel being confirmed.
C5_Witness ==
    /\ response.op = "final" /\ response.error = "PendingComponents"
    /\ response.detail = "carRental"

\* C6: a successful finalApprove(approved) changes only the decision and its
\* timestamp (the decision becoming the value of this request, whatever it
\* was before); itinerary, confirmation records, FinalReview and every other
\* session are unchanged.
C6_FinalApproveFrame ==
    [][response'.op = "final" =>
       \A id \in RequestIds, approved \in {Just(TRUE), Just(FALSE)} :
        (/\ id \in DOMAIN itineraryStore
         /\ AllConfirmed(itineraryStore[id].confirmations)
         /\ FinalConfirmation(id, approved))
        => /\ response'.status = 200
           /\ itineraryStore'[id].finalConfirmed = Get(approved)
           /\ itineraryStore'[id].finalConfirmationAt = Just(now)
           /\ itineraryStore' =
                 [itineraryStore EXCEPT
                    ![id].finalConfirmed = itineraryStore'[id].finalConfirmed,
                    ![id].finalConfirmationAt = itineraryStore'[id].finalConfirmationAt]
           /\ pending' = pending]_vars

\* C6 witness: a second approval has overwritten an earlier one: the stored
\* decision is "not approved", and between the car confirmation and this
\* decision the clock was read once more, by the earlier approval.
C6_Witness ==
    /\ response.op = "final" /\ response.status = 200
    /\ response.approved = Just(FALSE)
    /\ LET record == itineraryStore[response.itineraryId]
       IN /\ record.finalConfirmed = FALSE
          /\ record.finalConfirmationAt = Just(now - 1)
          /\ Get(record.confirmations.carRental).confirmedAt = now - 3
          /\ Get(record.confirmations.hotel).confirmedAt = now - 4
          /\ Get(record.confirmations.flight).confirmedAt = now - 5
          /\ IsDefined(record.finalReview)

\* C7: a confirm generates a FinalReview exactly when it leaves every
\* component confirmed: a successful confirm whose result shows all three
\* confirmed returns and stores a non-null FinalReview, and one whose result
\* shows a component unconfirmed returns finalReview null.
C7_FinalReviewExactlyWhenAllConfirmed ==
    (response.op = "confirm" /\ response.status = 200)
        => IF AllConfirmed(Get(response.confirmations))
           THEN /\ IsDefined(response.finalReview)
                /\ IsDefined(itineraryStore[response.itineraryId].finalReview)
           ELSE response.finalReview = Undefined

\* C8: every successful confirm returns nextComponentToConfirm equal to the
\* first component, in the order flight, hotel, carRental, whose confirmation
\* record is null, and null exactly when all three are confirmed.
C8_NextComponentIsFirstUnconfirmed ==
    (response.op = "confirm" /\ response.status = 200)
        => response.nextComponentToConfirm = FirstUnconfirmed(Get(response.confirmations))

\* C9: a confirm request (carrying all three fields) fails with
\* UnknownComponent when its component is not flight, hotel or carRental,
\* and, the component being one of them, with SessionNotFound when its id is
\* not in the session table; either way the table is left as it was.
C9_UnknownComponentAndSession ==
    [][response'.op = "confirm" =>
       \A request \in ConfirmRequests :
        (/\ request[1] # 0 /\ request[2] # "" /\ request[3] # ""
         /\ (request[2] \notin {"flight", "hotel", "carRental"}
             \/ request[1] \notin DOMAIN itineraryStore)
         /\ ConfirmComponent(request[1], request[2], request[3]))
        => /\ (request[2] \notin {"flight", "hotel", "carRental"}
                 => /\ response'.error = "UnknownComponent"
                    /\ response'.status = 400
                    /\ itineraryStore' = itineraryStore)
           /\ (request[2] \in {"flight", "hotel", "carRental"}
               /\ request[1] \notin DOMAIN itineraryStore
                 => /\ response'.error = "SessionNotFound"
                    /\ response'.status = 404
                    /\ itineraryStore' = itineraryStore)]_vars

\* C9 witness: SessionNotFound is answered while the table holds a session
\* with a confirmation.
C9_Witness ==
    /\ response.op = "confirm" /\ response.error = "SessionNotFound"
    /\ \E id \in DOMAIN itineraryStore :
          Confirmed(itineraryStore[id].confirmations, "flight")

\* C10: the StayWindow of every stored itinerary (the draft and the itinerary
\* after any flight confirmations) has nightsAtDestination >= 0 and
\* daysAtDestination >= 1.
C10_StayWindowInRange ==
    \A id \in DOMAIN itineraryStore :
        /\ Get(itineraryStore[id].itinerary.stayAtDestination).nightsAtDestination >= 0
        /\ Get(itineraryStore[id].itinerary.stayAtDestination).daysAtDestination >= 1

\* C11: the cost summary of every stored itinerary (the draft and the
\* itinerary after any flight confirmation) has totalUsd equal to
\* flightUsd + hotelUsd + carRentalUsd + activitiesUsd.
C11_TotalIsSumOfParts ==
    \A id \in DOMAIN itineraryStore :
        LET summary == itineraryStore[id].itinerary.estimatedCostSummary
        IN summary.totalUsd = summary.flightUsd + summary.hotelUsd
                                + summary.carRentalUsd + summary.activitiesUsd

\* C12: in every stored itinerary every hotel option has a night count equal
\* to the StayWindow's nightsAtDestination and a cost equal to its nightly
\* rate times that count, and every car option has a rental-day count equal
\* to daysAtDestination and a cost equal to its daily rate times that count.
C12_PricingAlignedToStay ==
    \A id \in DOMAIN itineraryStore :
        LET itinerary == itineraryStore[id].itinerary
            stay == Get(itinerary.stayAtDestination)
            hotels == itinerary.components.hotel.options
            cars == itinerary.components.carRental.options
        IN /\ \A i \in 1..Len(hotels) :
                /\ hotels[i].nights = Just(stay.nightsAtDestination)
                /\ IsDefined(hotels[i].nightlyUsd) /\ IsDefined(hotels[i].costUsd)
                /\ Get(hotels[i].costUsd)
                      = Get(hotels[i].nightlyUsd) * stay.nightsAtDestination
           /\ \A i \in 1..Len(cars) :
                /\ cars[i].rentalDays = Just(stay.daysAtDestination)
                /\ IsDefined(cars[i].dailyRateUsd) /\ IsDefined(cars[i].costUsd)
                /\ Get(cars[i].costUsd)
                      = Get(cars[i].dailyRateUsd) * stay.daysAtDestination

\* C13: every draft the pipeline returns (every stored itinerary) has a
\* non-empty option list for flight, hotel and carRental.
C13_OptionListsNonEmpty ==
    \A id \in DOMAIN itineraryStore :
        \A c \in Range(TRIP_COMPONENTS) :
            Len(itineraryStore[id].itinerary.components[c].options) > 0

\* C14: in every stored itinerary each component's recommended option id is
\* the id of an option in that component's option list.
C14_RecommendedIdIsOffered ==
    \A id \in DOMAIN itineraryStore :
        \A c \in Range(TRIP_COMPONENTS) :
            itineraryStore[id].itinerary.components[c].recommendedOptionId
                \in OptionIdsOf(itineraryStore[id], c)

\* the stage_started / stage_completed events of a sequence, in order
StageMarks(events) ==
    SelectSeq(events, LAMBDA e : e.type \in {"stage_started", "stage_completed"})
IsPrefix(a, b) == Len(a) <= Len(b) /\ a = SubSeq(b, 1, Len(a))
\* the order of the stages' notifications in a run that completes
StageOrder ==
    << Event("stage_started", "initialization"), Event("stage_completed", "initialization"),
       Event("stage_started", "research"), Event("stage_completed", "research"),
       Event("stage_started", "safety"), Event("stage_completed", "safety"),
       Event("stage_started", "composition"), Event("stage_completed", "composition") >>
\* a generation failure, or empty or unparsable output
FailedReply(result) == result.kind \in {"error", "empty", "invalid"}
CountOf(eventName) == Cardinality({i \in 1..Len(written) : written[i].event = eventName})

\* C15: when the reply of a stage is a generation failure or empty or
\* unparsable output, the run is over at once: that stage is the last one
\* invoked, buildItineraryDraft has thrown, the session table is empty, and
\* the caller has one failure result (the 500 answer of POST /api/plan; one
\* error event and no result event on a stream whose caller is connected).
C15_StageFailureAbortsRun ==
    \A i \in 1..Len(replies) :
        FailedReply(replies[i])
            => /\ pc = "done"
               /\ i = Len(replies)
               /\ Len(invoked) = i
               /\ outcome = "threw"
               /\ itineraryStore = <<>>
               /\ sink = "none" => response.op = "plan" /\ response.status = 500
               /\ sink = "sse" =>
                    /\ CountOf("result") = 0 /\ CountOf("done") = 0
                    /\ CountOf("error") = IF responseClosed THEN 0 ELSE 1

\* C15 witness: the safety stage of a streamed run gave empty output and the
\* connected caller got the error event.
C15_Witness ==
    /\ sink = "sse" /\ pc = "done" /\ ~responseClosed
    /\ Len(replies) = 2 /\ replies[2].kind = "empty"
    /\ CountOf("error") = 1

\* C16: the stage notifications of a run are emitted in the order
\* initialization, research, safety, composition, each stage_started before
\* its stage_completed and after the previous stage's stage_completed; a
\* stage's agent is invoked only after its stage_started, and its
\* stage_completed is emitted only after its invocation and only when its
\* reply parsed.
C16_NotificationsFollowStages ==
    /\ IsPrefix(StageMarks(emitted), StageOrder)
    /\ \A i \in 1..Len(invoked) :
          \E j \in 1..invoked[i].at :
              emitted[j] = Event("stage_started", invoked[i].stage)
    /\ \A j \in 1..Len(emitted) :
          (emitted[j].type = "stage_completed" /\ emitted[j].stage # "initialization")
            => \E i \in 1..Len(invoked) :
                  /\ invoked[i].stage = emitted[j].stage
                  /\ invoked[i].at < j
                  /\ i <= Len(replies)
                  /\ ~FailedReply(replies[i])

\* C16 witness: a run whose composition stage failed after research and
\* safety completed: the last stage notification is composition's
\* stage_started.
C16_Witness ==
    /\ pc = "done" /\ Len(replies) = 3 /\ FailedReply(replies[3])
    /\ StageMarks(emitted) = SubSeq(StageOrder, 1, 7)

\* C17: once the caller of POST /api/plan-stream is gone nothing more is
\* written to it, whatever the run does afterwards.
C17_NothingWrittenAfterClose ==
    [][responseClosed => written' = written]_vars

\* C17 witness: the caller left and the run went on to its end: the draft
\* was returned and stored, and more was emitted than was written.
C17_Witness ==
    /\ sink = "sse" /\ responseClosed /\ pc = "done"
    /\ outcome = "returned" /\ Len(itineraryStore) = 1
    /\ Len(emitted) > Len(written) + 4

\* C18: a failing onEvent callback never aborts the run: whenever no stage
\* reply failed, the finished run has invoked all three stages and returned
\* the draft.
C18_SinkFailureDoesNotAbortRun ==
    (pc = "done" /\ \A i \in 1..Len(replies) : ~FailedReply(replies[i]))
        => outcome = "returned" /\ Len(invoked) = Len(STAGES)

\* C19: a stream that is ended for a connected caller holds activity events
\* followed by exactly one terminal outcome: result then done when the draft
\* was returned, or one error event when the run failed; and a finished run
\* with a connected caller has ended the stream.
C19_OneTerminalOutcome ==
    sink = "sse" =>
        /\ (pc = "done" /\ ~responseClosed) => ended
        /\ ended =>
             LET n == Len(written)
             IN \/ /\ outcome = "returned"
                   /\ n >= 2
                   /\ written[n - 1].event = "result" /\ written[n].event = "done"
                   /\ \A i \in 1..(n - 2) : written[i].event = "activity"
                \/ /\ outcome = "threw"
                   /\ n >= 1
                   /\ written[n].event = "error"
                   /\ \A i \in 1..(n - 1) : written[i].event = "activity"

\* C19 witness: an ended stream whose last event is the error of a failed
\* research stage, after a tool call was reported.
C19_Witness ==
    /\ sink = "sse" /\ ended /\ Len(replies) = 1
    /\ written[Len(written)].event = "error"
    /\ \E i \in 1..Len(written) : written[i].type = "tool_call_started"

\* every session but the one with this id is as it was
OthersUnchanged(itineraryId) ==
    /\ DOMAIN itineraryStore' = DOMAIN itineraryStore
    /\ \A id \in DOMAIN itineraryStore \ {itineraryId} :
          itineraryStore'[id] = itineraryStore[id]

\* C20: a confirm request, the resumption of a suspended confirm request, or
\* a finalApprove request addressed to one session id leaves every other
\* session's record (itinerary, confirmation records, FinalReview, decision)
\* unchanged, in every interleaving of requests on two sessions.
C20_SessionsAreIndependent ==
    [][/\ response'.op = "confirm" =>
            /\ \A request \in SessionRequests :
                  ConfirmComponent(request[1], request[2][1], request[2][2])
                      => OthersUnchanged(request[1])
            /\ \A i \in 1..Len(pending) : \A r \in ReviewResults(pending[i]) :
                  FinalReviewReturns(i, r) => OthersUnchanged(pending[i].itineraryId)
       /\ response'.op = "final" =>
            \A id \in 1..MaxSideBySide, a \in {Just(TRUE), Just(FALSE)} :
                FinalConfirmation(id, a) => OthersUnchanged(id)]_vars

\* C20 witness: session 2 has just had its flight confirmed while session 1
\* holds three confirmations and its FinalReview.
C20_Witness ==
    /\ response.op = "confirm" /\ response.status = 200 /\ response.itineraryId = 2
    /\ Len(itineraryStore) = 2
    /\ AllConfirmed(itineraryStore[1].confirmations)
    /\ IsDefined(itineraryStore[1].finalReview)
    /\ Get(itineraryStore[2].confirmations.flight).confirmedAt = now - 1

\* C21: the itinerary of a session changes only through flight confirmation:
\* a successful confirm(hotel, id) or confirm(carRental, id) records id for
\* that component and changes nothing else of the session table, the
\* resumption of a suspended confirm changes only the FinalReview, and a step
\* that changes a stored itinerary is a flight confirmation of that session.
C21_OnlyFlightConfirmChangesItinerary ==
    [][/\ response'.op = "confirm" =>
            /\ \A request \in ConfirmRequests :
                  (/\ request[2] \in {"hotel", "carRental"}
                   /\ Offered(request)
                   /\ ConfirmComponent(request[1], request[2], request[3]))
                  => /\ IsDefined(itineraryStore'[request[1]].confirmations[request[2]])
                     /\ Get(itineraryStore'[request[1]].confirmations[request[2]]).optionId
                           = request[3]
                     /\ itineraryStore' =
                           [itineraryStore EXCEPT
                              ![request[1]].confirmations[request[2]] =
                                  itineraryStore'[request[1]].confirmations[request[2]]]
            /\ \A i \in 1..Len(pending) : \A r \in ReviewResults(pending[i]) :
                  FinalReviewReturns(i, r)
                  => itineraryStore' =
                        [itineraryStore EXCEPT
                           ![pending[i].itineraryId].finalReview =
                               itineraryStore'[pending[i].itineraryId].finalReview]
       /\ \A id \in DOMAIN itineraryStore :
            itineraryStore'[id].itinerary # itineraryStore[id].itinerary
            => /\ response'.op = "confirm" /\ response'.status = 200
               /\ response'.itineraryId = id
               /\ IsDefined(itineraryStore'[id].confirmations.flight)
               /\ Get(itineraryStore'[id].confirmations.flight).confirmedAt = now]_vars

\* C21 witness: a car confirmation that made all three confirmed has been
\* answered with its FinalReview, in a session whose flight was confirmed
\* twice before the hotel was.
C21_Witness ==
    /\ response.op = "confirm" /\ response.status = 200
    /\ IsDefined(response.finalReview)
    /\ LET record == itineraryStore[response.itineraryId]
       IN /\ AllConfirmed(record.confirmations)
          /\ Get(record.confirmations.flight).confirmedAt = 2
          /\ Get(record.confirmations.hotel).confirmedAt = 3
          /\ Get(record.confirmations.carRental).confirmedAt = 4

\* C22: a planning request that succeeds adds exactly one session, whose
\* three confirmation records are null, which has no FinalReview and whose
\* final-approval flag is false, and leaves the sessions already stored as
\* they were; a planning request that fails adds none.
C22_NewSessionStartsUnconfirmed ==
    [][response'.op = "plan" =>
          IF response'.status = 200
          THEN /\ Len(itineraryStore') = Len(itineraryStore) + 1
               /\ SubSeq(itineraryStore', 1, Len(itineraryStore)) = itineraryStore
               /\ response'.itineraryId = Len(itineraryStore')
               /\ LET record == itineraryStore'[Len(itineraryStore')]
                  IN /\ \A c \in Range(TRIP_COMPONENTS) : record.confirmations[c] = Undefined
                     /\ record.finalReview = Undefined
                     /\ record.finalConfirmed = FALSE
                     /\ record.createdAt = now
                     /\ response'.nextComponentToConfirm = "flight"
          ELSE itineraryStore' = itineraryStore]_vars

\* C22 witness: a planning request has just been answered with the id of the
\* session it created.
C22_Witness ==
    /\ response.op = "plan" /\ response.status = 200
    /\ response.itineraryId = Len(itineraryStore)
    /\ itineraryStore[response.itineraryId].createdAt = now - 1

\* a text of white space only
Blank(text) == \A i \in 1..Len(text) : text[i] \in WhiteSpace
RECURSIVE DropLeading(_)
DropLeading(text) ==
    IF text # <<>> /\ Head(text) \in WhiteSpace THEN DropLeading(Tail(text)) ELSE text
RECURSIVE DropTrailing(_)
DropTrailing(text) ==
    IF text # <<>> /\ text[Len(text)] \in WhiteSpace
    THEN DropTrailing(SubSeq(text, 1, Len(text) - 1)) ELSE text
\* a text without the white space around it
Stripped(text) == DropTrailing(DropLeading(text))
\* the opening markers of a fenced text
Openings == {Fence, Fence \o JsonTag, Fence \o <<"LF">>, Fence \o JsonTag \o <<"LF">>}
\* a text without the code-fence markers that surround it: the longest
\* opening marker and the closing fence, when it has both
Unfenced(text) ==
    LET fits == {o \in Openings :
                    /\ Len(text) >= Len(o) + Len(Fence)
                    /\ SubSeq(text, 1, Len(o)) = o
                    /\ SubSeq(text, Len(text) - Len(Fence) + 1, Len(text)) = Fence}
    IN IF fits = {} THEN text
       ELSE LET o == CHOOSE o \in fits : \A other \in fits : Len(other) <= Len(o)
            IN Stripped(SubSeq(text, Len(o) + 1, Len(text) - Len(Fence)))
\* JSON values and the text JSON.stringify writes for each
JsonValues ==
    { <<"object">>, <<"array">>, <<"array", <<"object">> >>, <<"array", <<"array">> >> }
RECURSIVE Written(_)
Written(v) ==
    IF v[1] = "object" THEN <<"{", "}">>
    ELSE <<"[">> \o (IF Len(v) = 1 THEN <<>> ELSE Written(v[2])) \o <<"]">>
\* the text is the value v written with white space between its tokens
Denotes(text, v) == SelectSeq(text, LAMBDA c : c \notin JsonWhiteSpace) = Written(v)

\* C23: parseAgentJson fails, with an error that names the agent of the stage
\* and quotes at most 200 characters from the start of the offending text,
\* whenever the text is empty or white space only or, without the white
\* space and the code-fence markers around it, is not one JSON value;
\* otherwise it returns that value; and the call changes nothing else.
C23_ValidatorFailsOrReturnsValue ==
    (call.fn = "parseAgentJson" /\ IsDefined(callResult)) =>
        LET r == Get(callResult)
            core == Unfenced(Stripped(call.rawText))
            values == {v \in JsonValues : Denotes(core, v)}
        IN /\ IF Blank(call.rawText) \/ values = {}
              THEN /\ ~r.ok /\ r.value = Undefined
                   /\ r.error[1] = call.agentName
                   /\ Len(r.error[3]) <= SliceLimit
                   /\ IsPrefix(r.error[3], core)
              ELSE /\ r.ok /\ r.error = <<>>
                   /\ IsDefined(r.value) /\ Get(r.value) \in values
           /\ itineraryStore = <<>> /\ response = NoResponse
           /\ emitted = <<>> /\ written = <<>>

\* C23 witness: a fenced text of more than 200 characters that is not JSON
\* was refused, the error quoting 200 of them.
C23_Witness ==
    /\ call.fn = "parseAgentJson" /\ IsDefined(callResult)
    /\ ~Get(callResult).ok
    /\ startsWith(call.rawText, Fence \o JsonTag)
    /\ Len(Get(callResult).error[3]) = SliceLimit

\* the calendar, month by month
DaysInMonth(y, m) ==
    IF m = 2
    THEN (IF y % 400 = 0 THEN 29 ELSE IF y % 100 = 0 THEN 28 ELSE IF y % 4 = 0 THEN 29 ELSE 28)
    ELSE IF m \in {4, 6, 9, 11} THEN 30 ELSE 31
IsCalendarDate(date) == date[2] \in 1..12 /\ date[3] \in 1..DaysInMonth(date[1], date[2])
NextMonth(date) ==
    IF date[2] < 12 THEN <<date[1], date[2] + 1, 1>> ELSE <<date[1] + 1, 1, 1>>
Earlier(a, b) ==
    \/ a[1] < b[1]
    \/ a[1] = b[1] /\ a[2] < b[2]
    \/ a[1] = b[1] /\ a[2] = b[2] /\ a[3] < b[3]
\* the days from date a to a date b that is not earlier, month by month
RECURSIVE CountDays(_, _)
CountDays(a, b) ==
    IF a[1] = b[1] /\ a[2] = b[2] THEN b[3] - a[3]
    ELSE (DaysInMonth(a[1], a[2]) - a[3] + 1) + CountDays(NextMonth(a), b)
\* the date part of a timestamp, when it has one that is a date
DatePart(time) ==
    IF time.form = "iso" /\ IsCalendarDate(<<time.y, time.m, time.d>>)
    THEN Just(<<time.y, time.m, time.d>>) ELSE Undefined
\* the hours from instant a to instant b, both with a date part
HoursBetween(a, b) ==
    (IF Earlier(Get(DatePart(b)), Get(DatePart(a)))
     THEN 0 - 24 * CountDays(Get(DatePart(b)), Get(DatePart(a)))
     ELSE 24 * CountDays(Get(DatePart(a)), Get(DatePart(b))))
    + (b.h - b.off) - (a.h - a.off)
\* the flight the stay is computed from: the research option with the
\* recommended id, else the first research option
StayFlight ==
    LET flights == call.flightOptions
        hits == {i \in 1..Len(flights) : flights[i].id = call.recommendedOptionId}
    IN IF flights = <<>> THEN Undefined
       ELSE IF hits = {} THEN Just(flights[1])
       ELSE Just(flights[CHOOSE i \in hits : \A j \in hits : i <= j])
\* a flight has both date parts and does not return before it arrives
DatesUsable(flight) ==
    /\ IsDefined(DatePart(flight.outboundArrivalLocal))
    /\ IsDefined(DatePart(flight.returnDepartureLocal))
    /\ ~Earlier(Get(DatePart(flight.returnDepartureLocal)),
                Get(DatePart(flight.outboundArrivalLocal)))
FlightDatesUsable == IsDefined(StayFlight) /\ DatesUsable(Get(StayFlight))
\* the preference dates are timestamps and the end is after the start
WindowUsable ==
    /\ IsDefined(DatePart(call.preferences.startDate))
    /\ IsDefined(DatePart(call.preferences.endDate))
    /\ HoursBetween(call.preferences.startDate, call.preferences.endDate) > 0
StayComputed == call.fn = "computeDestinationStay" /\ IsDefined(callResult)

\* C24: when the flight the stay is computed from (the research option with
\* the itinerary's recommended flight id, else the first one) has date parts
\* in its arrival and return timestamps and does not return before it
\* arrives, nightsAtDestination is the number of days from the arrival date
\* to the return date, whatever the hours and offsets, and daysAtDestination
\* is one more.
C24_StayFromFlightDates ==
    (StayComputed /\ FlightDatesUsable) =>
        LET nights == CountDays(Get(DatePart(Get(StayFlight).outboundArrivalLocal)),
                                Get(DatePart(Get(StayFlight).returnDepartureLocal)))
        IN /\ Get(callResult).nightsAtDestination = nights
           /\ Get(callResult).daysAtDestination = nights + 1

\* C24 witness: arrival 2026-03-22 and return 2026-03-29 give 8 days and 7
\* nights, the flight being the recommended second option.
C24_Witness ==
    /\ StayComputed /\ FlightDatesUsable
    /\ call.recommendedOptionId = "f2" /\ Len(call.flightOptions) = 2
    /\ Get(StayFlight).outboundArrivalLocal = Iso(2026, 3, 22, 8, 1)
    /\ Get(StayFlight).returnDepartureLocal = Iso(2026, 3, 29, 10, 1)
    /\ Get(callResult).daysAtDestination = 8
    /\ Get(callResult).nightsAtDestination = 7

\* C25: when there is no flight option, or a date part of the flight is
\* missing or malformed, or the flight returns before it arrives, and the
\* preference dates are usable, the stay comes from the preference window:
\* with diff the whole days between start and end, daysAtDestination is
\* max(1, diff) and nightsAtDestination is max(0, diff - 1).
C25_StayFromDateWindow ==
    (StayComputed /\ ~FlightDatesUsable /\ WindowUsable) =>
        LET diff == HoursBetween(call.preferences.startDate, call.preferences.endDate) \div 24
        IN /\ Get(callResult).daysAtDestination = (IF diff > 1 THEN diff ELSE 1)
           /\ Get(callResult).nightsAtDestination = (IF diff - 1 > 0 THEN diff - 1 ELSE 0)

\* C25 witness: a flight that returns before it arrives, and a window of 20
\* hours whose dates are two days apart: 1 day, 0 nights.
C25_Witness ==
    /\ StayComputed /\ ~FlightDatesUsable /\ WindowUsable
    /\ IsDefined(StayFlight)
    /\ IsDefined(DatePart(Get(StayFlight).outboundArrivalLocal))
    /\ IsDefined(DatePart(Get(StayFlight).returnDepartureLocal))
    /\ call.preferences.tripLengthDays = 2
    /\ Get(callResult).daysAtDestination = 1
    /\ Get(callResult).nightsAtDestination = 0

\* C26: when neither the flight dates nor the preference dates are usable,
\* the stay comes from the trip length L of the preferences:
\* daysAtDestination is max(1, L) and nightsAtDestination is max(0, L - 1).
C26_StayFromTripLength ==
    (StayComputed /\ ~FlightDatesUsable /\ ~WindowUsable) =>
        LET L == call.preferences.tripLengthDays
        IN /\ Get(callResult).daysAtDestination = (IF L > 1 THEN L ELSE 1)
           /\ Get(callResult).nightsAtDestination = (IF L - 1 > 0 THEN L - 1 ELSE 0)

\* the options a pass works on: the component's, else the fallback ones
OptionsGiven == IF call.component.options # <<>> THEN call.component.options
                ELSE call.fallbackOptions
\* a per-unit rate as the passes are to derive it: the explicit rate, else
\* the cost divided by the declared count, to the cent
RateFrom(rate, costUsd, count) ==
    IF IsDefined(rate) THEN rate
    ELSE IF IsDefined(costUsd) /\ IsDefined(count) /\ Get(count) > 0
         THEN Just((2 * Get(costUsd) + Get(count)) \div (2 * Get(count)))
         ELSE Undefined

\* C27: after the hotel pass every option has a nightly rate, the explicit
\* one if it had one, else its cost divided by its declared nights, and a
\* cost equal to that rate times the nightsAtDestination of the StayWindow
\* the pass was given, a StayWindow of 0 nights included.
C27_HotelCostIsRateTimesStayNights ==
    (call.fn = "normalizeHotelComponent" /\ IsDefined(callResult)) =>
        /\ Len(Get(callResult).options) = Len(OptionsGiven)
        /\ \A i \in 1..Len(OptionsGiven) :
             LET given == OptionsGiven[i]
                 option == Get(callResult).options[i]
                 rate == RateFrom(given.nightlyUsd, given.costUsd, given.nights)
             IN /\ IsDefined(rate)
                /\ option.nightlyUsd = rate
                /\ option.costUsd
                     = Just(Get(rate) * call.computedStay.nightsAtDestination)

\* C28: after the car pass every option has a daily rate, the explicit one
\* if it had one, else its cost divided by its declared rental days, and a
\* cost equal to that rate times the daysAtDestination of the StayWindow the
\* pass was given.
C28_CarCostIsRateTimesStayDays ==
    (call.fn = "normalizeCarComponent" /\ IsDefined(callResult)) =>
        /\ Len(Get(callResult).options) = Len(OptionsGiven)
        /\ \A i \in 1..Len(OptionsGiven) :
             LET given == OptionsGiven[i]
                 option == Get(callResult).options[i]
                 rate == RateFrom(given.dailyRateUsd, given.costUsd, given.rentalDays)
             IN /\ IsDefined(rate)
                /\ option.dailyRateUsd = rate
                /\ option.costUsd
                     = Just(Get(rate) * call.computedStay.daysAtDestination)

\* the option a component's cost is taken from: the first one that has the
\* recommended id, else the first one
Selected(component) ==
    LET hits == {i \in 1..Len(component.options) :
                    component.options[i].id = component.recommendedOptionId}
    IN IF hits = {} THEN component.options[1]
       ELSE component.options[CHOOSE i \in hits : \A j \in hits : i <= j]
\* what an option contributes: its cost, else nightly rate times nights,
\* else nothing
Contribution(option) ==
    IF IsDefined(option.costUsd) THEN Get(option.costUsd)
    ELSE IF "nightlyUsd" \in DOMAIN option /\ IsDefined(option.nightlyUsd)
            /\ IsDefined(option.nights)
         THEN Get(option.nightlyUsd) * Get(option.nights)
         ELSE 0
SelectedCost(component) ==
    IF component.options = <<>> THEN 0 ELSE Contribution(Selected(component))

\* C29: in the cost summary each of flightUsd, hotelUsd and carRentalUsd is
\* the cost of the component's option with the recommended id, or of its
\* first option when the recommended id is missing or is no option's; a
\* hotel option without a cost counts as nightly rate times nights, and a
\* component without options counts as 0.
C29_SummaryTakesRecommendedOption ==
    (call.fn = "estimateTotals" /\ IsDefined(callResult)) =>
        /\ Get(callResult).flightUsd = SelectedCost(call.flight)
        /\ Get(callResult).hotelUsd = SelectedCost(call.hotel)
        /\ Get(callResult).carRentalUsd = SelectedCost(call.carRental)

\* C29 witness: the second flight is recommended and counted, the hotel's
\* recommended id is no option's and its first option, which has no cost,
\* counts as $100 x 3, and the car component has no option.
C29_Witness ==
    /\ call.fn = "estimateTotals" /\ IsDefined(callResult)
    /\ call.flight.recommendedOptionId = "f2" /\ Len(call.flight.options) = 2
    /\ Get(callResult).flightUsd = 90000
    /\ call.hotel.recommendedOptionId = "h9" /\ Len(call.hotel.options) = 2
    /\ ~IsDefined(call.hotel.options[1].costUsd)
    /\ Get(callResult).hotelUsd = 30000
    /\ call.carRental.options = <<>>
    /\ Get(callResult).carRentalUsd = 0

\* the StayWindow of a confirmed flight: from its arrival and return dates,
\* else from the date window of the session's preferences
StayOf(flight, preferences) ==
    IF DatesUsable(flight)
    THEN LET nights == CountDays(Get(DatePart(flight.outboundArrivalLocal)),
                                 Get(DatePart(flight.returnDepartureLocal)))
         IN [arrivalLocal |-> flight.outboundArrivalLocal,
             departureLocal |-> flight.returnDepartureLocal,
             daysAtDestination |-> nights + 1,
             nightsAtDestination |-> nights]
    ELSE LET diff == HoursBetween(preferences.startDate, preferences.endDate) \div 24
         IN [arrivalLocal |-> preferences.startDate,
             departureLocal |-> preferences.endDate,
             daysAtDestination |-> (IF diff > 1 THEN diff ELSE 1),
             nightsAtDestination |-> (IF diff - 1 > 0 THEN diff - 1 ELSE 0)]
\* the session's flight is confirmed, as the last flight confirmation left it
FlightConfirmed(id) == IsDefined(itineraryStore[id].confirmations.flight)
ConfirmedFlight(id) ==
    LET options == itineraryStore[id].itinerary.components.flight.options
        optionId == Get(itineraryStore[id].confirmations.flight).optionId
    IN options[CHOOSE i \in 1..Len(options) :
                  /\ options[i].id = optionId
                  /\ \A j \in 1..(i - 1) : options[j].id # optionId]
RecommendedIsConfirmed(id) ==
    itineraryStore[id].itinerary.components.flight.recommendedOptionId
        = Get(itineraryStore[id].confirmations.flight).optionId
StayIsOfConfirmedFlight(id) ==
    LET stay == Get(itineraryStore[id].itinerary.stayAtDestination)
        expected == StayOf(ConfirmedFlight(id), itineraryStore[id].preferences)
    IN /\ stay.arrivalLocal = expected.arrivalLocal
       /\ stay.departureLocal = expected.departureLocal
       /\ stay.daysAtDestination = expected.daysAtDestination
       /\ stay.nightsAtDestination = expected.nightsAtDestination
RepricedAgainstStay(id) ==
    LET itinerary == itineraryStore[id].itinerary
        stay == Get(itinerary.stayAtDestination)
        hotels == itinerary.components.hotel.options
        cars == itinerary.components.carRental.options
    IN /\ \A i \in 1..Len(hotels) :
            /\ IsDefined(hotels[i].nightlyUsd)
            /\ hotels[i].costUsd
                 = Just(Get(hotels[i].nightlyUsd) * stay.nightsAtDestination)
       /\ \A i \in 1..Len(cars) :
            /\ IsDefined(cars[i].dailyRateUsd)
            /\ cars[i].costUsd = Just(Get(cars[i].dailyRateUsd) * stay.daysAtDestination)
SummaryRecomputed(id) ==
    LET itinerary == itineraryStore[id].itinerary
        summary == itinerary.estimatedCostSummary
    IN /\ summary.flightUsd = Contribution(ConfirmedFlight(id))
       /\ summary.hotelUsd = SelectedCost(itinerary.components.hotel)
       /\ summary.carRentalUsd = SelectedCost(itinerary.components.carRental)

\* C30: in every session whose flight is confirmed the itinerary is that of
\* the confirmed flight: the flight component recommends the confirmed id,
\* the StayWindow is the one of that flight's arrival and return dates, every
\* hotel and car option is priced at its rate times that StayWindow's nights
\* or days, and the cost summary has the confirmed flight's cost as flightUsd
\* and the recommended hotel and car options' costs as hotelUsd and
\* carRentalUsd.
C30_ItineraryReflectsConfirmedFlight ==
    \A id \in DOMAIN itineraryStore :
        FlightConfirmed(id) =>
            /\ RecommendedIsConfirmed(id)
            /\ StayIsOfConfirmedFlight(id)
            /\ RepricedAgainstStay(id)
            /\ SummaryRecomputed(id)

\* C31: at most one stage is awaited at a time, in the order research,
\* safety, composition, and every stage was invoked on the preferences of the
\* request and the parsed outputs of all stages before it: the safety stage
\* on the research output, the composition stage on the research and the
\* safety output.
C31_StageInputIsPredecessorsOutput ==
    /\ Len(invoked) <= Len(STAGES)
    /\ \A i \in 1..Len(invoked) :
          /\ invoked[i].stage = STAGES[i]
          /\ Len(replies) >= i - 1
          /\ invoked[i].input.preferences = runPreferences
          /\ invoked[i].input.research = (IF i > 1 THEN replies[1].value ELSE Undefined)
          /\ invoked[i].input.safety = (IF i > 2 THEN replies[2].value ELSE Undefined)

\* C32: confirmations are made in the order flight, hotel, carRental: no
\* session has its hotel or its carRental confirmed while its flight is
\* unconfirmed.
C32_HotelAndCarOnlyAfterFlight ==
    \A id \in DOMAIN itineraryStore :
        LET confirmations == itineraryStore[id].confirmations
        IN (IsDefined(confirmations.hotel) \/ IsDefined(confirmations.carRental))
           => IsDefined(confirmations.flight)

\* C33: a session whose final approval is recorded (finalConfirmed true) has
\* its flight, hotel and carRental confirmed, also after a flight
\* confirmation that follows the approval.
C33_ApprovedImpliesAllConfirmed ==
    \A id \in DOMAIN itineraryStore :
        itineraryStore[id].finalConfirmed = TRUE
        => AllConfirmed(itineraryStore[id].confirmations)

\* C34: a finalApprove on a session on which no confirm is suspended records
\* a decision only if the session has a FinalReview, so a final-review call
\* that failed in the confirm that completed the three confirmations does not
\* leave a session that can be decided without review.
C34_DecisionNeedsFinalReview ==
    [][response'.op = "final" =>
       \A id \in RequestIds, approved \in {Just(TRUE), Just(FALSE)} :
        (/\ id \in DOMAIN itineraryStore
         /\ ~SuspendedFor(id)
         /\ FinalConfirmation(id, approved)
         /\ response'.status = 200)
        => IsDefined(itineraryStore[id].finalReview)]_vars

\* what of an itinerary a flight confirmation is to determine: the numbers
\* and timestamps of the StayWindow, the hotel and car options, the summary
Priced(itinerary) ==
    LET stay == Get(itinerary.stayAtDestination)
    IN [arrivalLocal |-> stay.arrivalLocal,
        departureLocal |-> stay.departureLocal,
        daysAtDestination |-> stay.daysAtDestination,
        nightsAtDestination |-> stay.nightsAtDestination,
        hotel |-> itinerary.components.hotel.options,
        carRental |-> itinerary.components.carRental.options,
        summary |-> itinerary.estimatedCostSummary]
Recomputed == call.fn = "recomputeDependentComponentsFromFlight" /\ IsDefined(callResult)

\* C35: the StayWindow, the hotel and car prices and the cost summary after a
\* flight confirmation are those of confirming that flight on the draft as
\* it was returned, whatever flights were confirmed on the session before it,
\* also when the confirmed flight's date parts are missing or malformed.
C35_LastFlightAloneDecides ==
    Recomputed =>
        Priced(Get(callResult))
          = Priced(recomputeDependentComponentsFromFlight(call.itinerary,
                                                          call.confirmedFlightOptionId))

\* C36: a successful confirm(flight, optionId) on a session whose confirmed
\* flight is already optionId leaves the hotel and carRental confirmations
\* null and the FinalReview absent, and renews the flight record's timestamp.
C36_SameFlightAgainClears ==
    [][response'.op = "confirm" =>
       \A request \in ConfirmRequests :
        (/\ request[2] = "flight"
         /\ Offered(request)
         /\ IsDefined(itineraryStore[request[1]].confirmations.flight)
         /\ Get(itineraryStore[request[1]].confirmations.flight).optionId = request[3]
         /\ ConfirmComponent(request[1], request[2], request[3]))
        => /\ response'.status = 200
           /\ itineraryStore'[request[1]].confirmations.hotel = Undefined
           /\ itineraryStore'[request[1]].confirmations.carRental = Undefined
           /\ itineraryStore'[request[1]].finalReview = Undefined
           /\ itineraryStore'[request[1]].confirmations.flight
                = Just([optionId |-> request[3], confirmedAt |-> now])]_vars

\* C36 witness: the clock was read four times since the session was created,
\* by the confirmations of flight, hotel and carRental (the third still
\* suspended, with the flight it found confirmed) and by the confirmation of
\* the same flight again, after which hotel and carRental are null.
C36_Witness ==
    /\ response.op = "confirm" /\ response.status = 200
    /\ Len(pending) = 1
    /\ LET record == itineraryStore[response.itineraryId]
       IN /\ pending[1].itineraryId = response.itineraryId
          /\ record.createdAt = now - 5
          /\ record.confirmations.flight
               = Just([optionId |-> pending[1].selected.flight, confirmedAt |-> now - 1])
          /\ record.confirmations.hotel = Undefined
          /\ record.confirmations.carRental = Undefined
          /\ record.finalReview = Undefined

\* the option ids of a component, in the order of its list
OptionIdsInOrder(record, componentType) ==
    [i \in 1..Len(record.itinerary.components[componentType].options) |->
        record.itinerary.components[componentType].options[i].id]

\* C37: after every step each session's confirmed option ids are ids of
\* options in the lists of their components, and no step removes, renames or
\* reorders the options of a stored session's flight, hotel or carRental.
C37_ConfirmedOptionStaysOffered ==
    [][\A id \in DOMAIN itineraryStore' :
         \A c \in Range(TRIP_COMPONENTS) :
            /\ IsDefined(itineraryStore'[id].confirmations[c])
               => Get(itineraryStore'[id].confirmations[c]).optionId
                     \in OptionIdsOf(itineraryStore'[id], c)
            /\ id \in DOMAIN itineraryStore
               => OptionIdsInOrder(itineraryStore'[id], c)
                     = OptionIdsInOrder(itineraryStore[id], c)]_vars

\* C37 witness: the second flight was confirmed after an earlier
\* confirmation on the session, the hotel options were priced again for its
\* StayWindow, and the hotel confirmed after that is one of them.
C37_Witness ==
    /\ response.op = "confirm" /\ response.status = 200
    /\ LET record == itineraryStore[response.itineraryId]
       IN /\ record.createdAt = 0
          /\ record.confirmations.flight = Just([optionId |-> "f2", confirmedAt |-> 2])
          /\ record.confirmations.hotel = Just([optionId |-> "h1", confirmedAt |-> 3])
          /\ record.confirmations.carRental = Undefined
          /\ "h1" \in OptionIdsOf(record, "hotel")
          /\ Len(record.itinerary.components.flight.options) = 2

====
